---- MODULE Spec2Model ----
(***************************************************************************)
(* State-machine model of the SRM farm / maintenance REST backend          *)
(* (FastAPI + SQLAlchemy).  The state is the committed content of the      *)
(* database tables the checked properties talk about, the set of JWTs     *)
(* issued so far, the wall clock, and the response of the last request.    *)
(* Every action is one HTTP request: dependency resolution                 *)
(* (get_current_user / require_role), the endpoint body, the service call  *)
(* with its flush, and the commit or rollback that ends the request.       *)
(***************************************************************************)
EXTENDS Integers, Sequences, FiniteSets, TLC

\* ------------------------------------------------------------------------
\* Values
\* ------------------------------------------------------------------------
\* SQL NULL / JSON null / Python None for string-valued columns and fields
NULL == "null"
\* a field the request body does not mention (pydantic: not in model_fields_set)
UNSET == "unset"
\* "no row" for integer-valued ids (None for a UUID)
NoId == 0

Orgs == {"o1", "o2"}

\* UserRole (src/app/core/models/user.py)
WORKER == "worker"
SUPERVISOR == "supervisor"
MANAGER == "manager"
ADMIN == "admin"
UserRole == {WORKER, SUPERVISOR, MANAGER, ADMIN}

\* Settings (src/app/config.py), in minutes
access_token_expire_minutes == 15
refresh_token_expire_days == 7
RefreshTtl == refresh_token_expire_days * 24 * 60

\* ------------------------------------------------------------------------
\* Bounds of the model
\* ------------------------------------------------------------------------
\* user ids are 1..MaxUsers; the first two are seeded, the rest are free
MaxUsers == 3
\* number of JWTs issued over a run
MaxTokens == 3

UserIds == 1..MaxUsers

\* location ids are 1..MaxLocations; the first two are seeded
MaxLocations == 3

LocationIds == 1..MaxLocations

\* scheduled tasks (the first two seeded), day schedules, history rows
MaxTasks == 4
TaskIds == 1..MaxTasks
MaxSchedules == 3
ScheduleIds == 1..MaxSchedules
MaxUpdates == 2

\* instants the clock can jump to: around the access and the refresh expiry
TimePoints ==
    { 0,
      access_token_expire_minutes - 1, access_token_expire_minutes,
      access_token_expire_minutes + 1,
      RefreshTtl + 1 }

\* request inputs
Pins == {"1111", "2222"}
Passwords == {"adminpass", "wrongpass"}
EmployeeCodes == {"E1", "E2", "E9"}

VARIABLES
    users,          \* table users: id -> row
    tokens,         \* JWTs issued so far
    now,            \* wall clock, minutes
    locations,      \* table locations: id -> row
    farmTasks,      \* table farm_tasks: id -> row
    notifications,  \* table notifications: id -> row
    daySchedules,   \* table day_schedules: id -> row
    scheduledTasks, \* table scheduled_tasks: id -> row
    taskUpdates,    \* table task_updates, in insertion order
    sessions,       \* database sessions of the create_schedule requests in flight
    weatherCache,   \* WeatherCache._cache: key -> (data, timestamp)
    weatherCalls,   \* get_tiruvannamalai_weather calls awaiting the upstream
    resp            \* the last request and its response

vars == <<users, tokens, now, locations, farmTasks, daySchedules,
          scheduledTasks, taskUpdates, sessions, weatherCache, weatherCalls,
          notifications, resp>>

\* ------------------------------------------------------------------------
\* Request scope: the database session
\* ------------------------------------------------------------------------
\* get_db: the session a request works in.  What the request flushed
\* becomes the committed table when the request ends normally, and is
\* rolled back when the request ends with an exception.
get_db(committed, flushed, raised) ==
    IF raised THEN committed ELSE flushed

\* smallest id of All not used as a key of table (a fresh primary key)
NewId(table, All) ==
    CHOOSE i \in All \ DOMAIN table : \A j \in All \ DOMAIN table : i <= j

Response(op, caller, target, code, detail, data) ==
    [op |-> op, caller |-> caller, target |-> target, code |-> code,
     detail |-> detail, data |-> data]

\* ------------------------------------------------------------------------
\* AuthService: hashing
\* ------------------------------------------------------------------------
\* bcrypt digests: the digest of a secret is not the secret
hash_pin(pin) == <<"bcrypt", pin>>

verify_pin(plain_pin, hashed_pin) == hashed_pin = <<"bcrypt", plain_pin>>

hash_password(password) == <<"bcrypt", password>>

verify_password(plain_password, hashed_password) ==
    hashed_password = <<"bcrypt", plain_password>>

\* a nullable hash column holding no hash
NoHash == <<>>

\* ------------------------------------------------------------------------
\* Initial content of the tables
\* ------------------------------------------------------------------------
User(org, code, role, dept, pin, pw) ==
    [org_id |-> org, employee_code |-> code, role |-> role,
     department |-> dept, is_active |-> TRUE,
     pin_hash |-> IF pin = NULL THEN NoHash ELSE hash_pin(pin),
     password_hash |-> IF pw = NULL THEN NoHash ELSE hash_password(pw)]

SeedUsers ==
    (1 :> User("o1", "E1", ADMIN, "general", "1111", "adminpass")) @@
    (2 :> User("o2", "E2", MANAGER, "farm", "2222", NULL))

Location(org, parent, code, qr) ==
    [org_id |-> org, parent_id |-> parent, code |-> code, qr_code |-> qr,
     is_active |-> TRUE]

SeedLocations ==
    (1 :> Location("o1", NoId, "FARM", "qr-1")) @@
    (2 :> Location("o2", NoId, "FARM", NULL))

\* ------------------------------------------------------------------------
\* AuthService: tokens
\* ------------------------------------------------------------------------
TokenPayload(uid, user) ==
    [user_id |-> uid, employee_code |-> user.employee_code,
     role |-> user.role, department |-> user.department,
     org_id |-> user.org_id]

Jwt(payload, exp, type, sig) ==
    [user_id |-> payload.user_id, employee_code |-> payload.employee_code,
     role |-> payload.role, department |-> payload.department,
     org_id |-> payload.org_id, exp |-> exp, type |-> type, sig |-> sig]

create_access_token(data, t) ==
    Jwt(data, t + access_token_expire_minutes, "access", "valid")

create_refresh_token(data, t) ==
    Jwt(data, t + RefreshTtl, "refresh", "valid")

\* jwt.decode: signature and expiry (a token is expired once exp < now)
JwtDecodes(token, t) == token.sig = "valid" /\ ~(token.exp < t)

\* decode_token: the TokenData of a token that decodes, else 401
decode_token_ok(token, t) == JwtDecodes(token, t)

\* a token signed with another key
ForgedToken ==
    Jwt(TokenPayload(1, SeedUsers[1]), RefreshTtl + access_token_expire_minutes,
        "access", "forged")

get_user_by_id(user_id) ==
    IF user_id \in DOMAIN users THEN {user_id} ELSE {}

get_user_by_employee_code(employee_code) ==
    {u \in DOMAIN users : users[u].employee_code = employee_code}

\* authenticate_with_pin: the set holding the authenticated user, or {}
authenticate_with_pin(employee_code, pin) ==
    {u \in get_user_by_employee_code(employee_code) :
        /\ users[u].is_active
        /\ users[u].pin_hash # NoHash
        /\ verify_pin(pin, users[u].pin_hash)}

authenticate_with_password(employee_code, password) ==
    {u \in get_user_by_employee_code(employee_code) :
        /\ users[u].is_active
        /\ users[u].password_hash # NoHash
        /\ verify_password(password, users[u].password_hash)}

\* login that gives up when the PIN fails instead of trying the password
LoginUser_NoFallback(employee_code, pin, password) ==
    IF pin # NULL
    THEN authenticate_with_pin(employee_code, pin)
    ELSE IF password # NULL
         THEN authenticate_with_password(employee_code, password)
         ELSE {}

\* AuthService.login: the user the request authenticates as, or {}
LoginUser(employee_code, pin, password) ==
    LET byPin == IF pin # NULL
                 THEN authenticate_with_pin(employee_code, pin) ELSE {}
    IN  IF byPin = {} /\ password # NULL
        THEN authenticate_with_password(employee_code, password)
        ELSE byPin

\* get_current_user without the is_active check
CurrentUser_IgnoresActive(token) ==
    IF ~decode_token_ok(token, now) THEN {}
    ELSE get_user_by_id(token.user_id)

\* get_current_user: the user a bearer token authenticates, or {}
CurrentUser(token) ==
    IF ~decode_token_ok(token, now) THEN {}
    ELSE {u \in get_user_by_id(token.user_id) : users[u].is_active}

\* the caller of an authenticated endpoint: what get_current_user returns
Authenticated(c) == c \in DOMAIN users /\ users[c].is_active

\* ------------------------------------------------------------------------
\* Scheduled tasks, day schedules and the task-update history
\* ------------------------------------------------------------------------
\* a timestamp column holding NULL
NoTime == -1

Dates == {"d1", "d2"}

\* rows of the fields table (scripts/seed_data.py) and a field id that is
\* not in the table
SeedFields == {1}
FieldIds == {1, 9}

DaySchedule(org, date, by) ==
    [org_id |-> org, schedule_date |-> date, created_by_id |-> by]

\* a ScheduledTask row; the columns the requests below never write
\* (scheduled_time, category, priority, names) are left out
ScheduledTask(org, schedule, field, description_tamil) ==
    [org_id |-> org, schedule_id |-> schedule, field_id |-> field,
     description_tamil |-> description_tamil, status |-> "scheduled",
     completed_at |-> NoTime, has_issues |-> FALSE, issue_type |-> NULL]

\* a TaskUpdate row
TaskUpdate(task_id, worker_id, status) ==
    [task_id |-> task_id, worker_id |-> worker_id, status |-> status]

SeedDaySchedules == (1 :> DaySchedule("o1", "d1", 1))

SeedScheduledTasks ==
    (1 :> ScheduledTask("o1", 1, 1, "t1")) @@
    (2 :> ScheduledTask("o2", NoId, NoId, "t1"))

\* ------------------------------------------------------------------------
\* Farm tasks
\* ------------------------------------------------------------------------
\* a rating column holding NULL
NoRating == 0

\* a FarmTask row as TaskService.create_task stores it; the columns the
\* requests below never write are left out
FarmTask(org, title) ==
    [org_id |-> org, title |-> title, status |-> "pending",
     started_at |-> NoTime, completed_at |-> NoTime, postponed_to |-> NULL,
     postpone_reason |-> NULL, feedback |-> NULL, rating |-> NoRating,
     assigned_to |-> NoId, priority |-> "normal", scheduled_date |-> "d1"]

SeedFarmTasks ==
    (1 :> FarmTask("o1", "t1")) @@ (2 :> FarmTask("o2", "t1"))

\* a row of notifications: the recipient, the priority, read_at (NoTime
\* when unread)
Notification(user_id, priority, read_at) ==
    [user_id |-> user_id, priority |-> priority, read_at |-> read_at]

SeedNotifications ==
    (1 :> Notification(1, "critical", NoTime)) @@
    (2 :> Notification(2, "normal", NoTime))

Init ==
    /\ users = SeedUsers
    /\ tokens = {}
    /\ now = 0
    /\ locations = SeedLocations
    /\ farmTasks = SeedFarmTasks
    /\ daySchedules = SeedDaySchedules
    /\ scheduledTasks = SeedScheduledTasks
    /\ taskUpdates = <<>>
    /\ sessions = <<>>
    /\ weatherCache = <<>>
    /\ weatherCalls = {}
    /\ notifications = SeedNotifications
    /\ resp = Response("none", NoId, NoId, 0, "", <<>>)

\* ------------------------------------------------------------------------
\* /auth endpoints
\* ------------------------------------------------------------------------
\* POST /auth/login
login(employee_code, pin, password) ==
    LET who == LoginUser(employee_code, pin, password)
        req == [employee_code |-> employee_code, pin |-> pin,
                password |-> password]
    IN  IF who = {}
        THEN /\ resp' = Response("login", NoId, NoId, 401,
                                 "Invalid credentials",
                                 [request |-> req, issued |-> {}])
             /\ UNCHANGED <<users, tokens, now, locations, farmTasks,
                            daySchedules, scheduledTasks, taskUpdates,
                            sessions, weatherCache, weatherCalls,
                            notifications>>
        ELSE LET u == CHOOSE x \in who : TRUE
                 token_data == TokenPayload(u, users[u])
                 issued == {create_access_token(token_data, now),
                            create_refresh_token(token_data, now)}
             IN  /\ Cardinality(tokens \cup issued) <= MaxTokens
                 /\ tokens' = tokens \cup issued
                 /\ resp' = Response("login", NoId, u, 200, "",
                                     [request |-> req, issued |-> issued])
                 /\ UNCHANGED <<users, now, locations, farmTasks,
                                daySchedules, scheduledTasks, taskUpdates,
                                sessions, weatherCache, weatherCalls,
                                notifications>>

\* token data copied from the claims of the refresh token
RefreshTokenData_FromToken(refresh_token) ==
    [user_id |-> refresh_token.user_id,
     employee_code |-> refresh_token.employee_code,
     role |-> refresh_token.role, department |-> refresh_token.department,
     org_id |-> refresh_token.org_id]

\* the token data refresh_access_token builds from the users row
RefreshTokenData(refresh_token) ==
    TokenPayload(refresh_token.user_id, users[refresh_token.user_id])

\* the detail of the 401 refresh_access_token raises, "" when it raises none
RefreshError(refresh_token) ==
    IF ~JwtDecodes(refresh_token, now)
    THEN "Invalid or expired refresh token"
    ELSE IF refresh_token.type # "refresh" THEN "Invalid token type"
    ELSE IF {u \in get_user_by_id(refresh_token.user_id) :
                users[u].is_active} = {}
    THEN "User not found or inactive"
    ELSE ""

\* POST /auth/refresh
refresh_access_token(refresh_token) ==
    IF RefreshError(refresh_token) # ""
    THEN /\ resp' = Response("refresh", NoId, refresh_token.user_id, 401,
                             RefreshError(refresh_token),
                             [token |-> refresh_token, issued |-> {}])
         /\ UNCHANGED <<users, tokens, now, locations, farmTasks,
                        daySchedules, scheduledTasks, taskUpdates,
                        sessions, weatherCache, weatherCalls, notifications>>
    ELSE LET u == refresh_token.user_id
             access == create_access_token(RefreshTokenData(refresh_token),
                                           now)
         IN  /\ Cardinality(tokens \cup {access}) <= MaxTokens
             /\ tokens' = tokens \cup {access}
             /\ resp' = Response("refresh", NoId, u, 200, "",
                                 [token |-> refresh_token,
                                  issued |-> {access}])
             /\ UNCHANGED <<users, now, locations, farmTasks,
                            daySchedules, scheduledTasks, taskUpdates,
                            sessions, weatherCache, weatherCalls,
                            notifications>>

\* GET /auth/me: any endpoint behind Depends(get_current_user)
get_current_user(token) ==
    LET who == CurrentUser(token)
    IN  /\ resp' = IF who = {}
                   THEN Response("bearer", NoId, token.user_id, 401,
                                 "Not authenticated", [token |-> token])
                   ELSE Response("bearer", token.user_id, token.user_id, 200,
                                 "", [token |-> token])
        /\ UNCHANGED <<users, tokens, now, locations, farmTasks,
                       daySchedules, scheduledTasks, taskUpdates,
                       sessions, weatherCache, weatherCalls, notifications>>

\* time passes
Tick ==
    /\ \E t \in TimePoints : t > now /\ now' = t
    /\ resp' = Response("tick", NoId, NoId, 0, "", <<>>)
    /\ UNCHANGED <<users, tokens, locations, farmTasks, daySchedules,
                   scheduledTasks, taskUpdates,
                   sessions, weatherCache, weatherCalls, notifications>>

\* ------------------------------------------------------------------------
\* Role-based access control
\* ------------------------------------------------------------------------
\* User.is_supervisor, used where User.is_admin is meant
is_supervisor(c) == users[c].role \in {SUPERVISOR, MANAGER, ADMIN}

\* User.is_admin
is_admin(c) == users[c].role = ADMIN

\* a role_checker that lets every authenticated caller through
require_role_NoCheck(roles, c) == c \in DOMAIN users

\* require_role(*roles): the role_checker lets the caller through
require_role(roles, c) == users[c].role \in roles

Forbidden(op, c, t, data) ==
    Response(op, c, t, 403, "Insufficient permissions", data)

AccessDenied(op, c, t, data) ==
    Response(op, c, t, 403, "Access denied", data)

NotFound(op, c, t, data) ==
    Response(op, c, t, 404, "Not found", data)

\* an exception no handler catches (sqlalchemy IntegrityError, ValueError)
ServerError(op, c, t, data) ==
    Response(op, c, t, 500, "Internal Server Error", data)

\* ------------------------------------------------------------------------
\* UserService
\* ------------------------------------------------------------------------
\* UserUpdate bodies: every field is UNSET, NULL or a value
UserUpdates ==
    [role : {UNSET, NULL, SUPERVISOR},
     department : {UNSET, "general"},
     is_active : {UNSET, "true", "false"}]

\* columns of users declared nullable=False that an update assigns None to
UserNotNullViolation(update_data) ==
    \/ update_data.role = NULL
    \/ update_data.department = NULL
    \/ update_data.is_active = NULL

\* UserService.update: setattr for every field of model_dump(exclude_unset)
UserService_update(row, update_data) ==
    [row EXCEPT
        !.role = IF update_data.role \in {UNSET, NULL}
                 THEN @ ELSE update_data.role,
        !.department = IF update_data.department \in {UNSET, NULL}
                       THEN @ ELSE update_data.department,
        !.is_active = IF update_data.is_active \in {UNSET, NULL}
                      THEN @ ELSE update_data.is_active = "true"]

\* UserService.get_all with the org_id filter (NULL: no filter)
UserService_get_all(org_id) ==
    {u \in DOMAIN users : org_id = NULL \/ users[u].org_id = org_id}

UNCHANGED_but_users ==
    UNCHANGED <<tokens, now, locations, farmTasks, daySchedules,
                scheduledTasks, taskUpdates,
                sessions, weatherCache, weatherCalls, notifications>>

\* ------------------------------------------------------------------------
\* /users endpoints
\* ------------------------------------------------------------------------
\* PUT /users/me
update_my_profile(c, body) ==
    /\ Authenticated(c)
    /\ LET data == IF ~is_admin(c)
                   THEN [body EXCEPT !.role = NULL, !.department = NULL,
                                     !.is_active = NULL]
                   ELSE body
           flushed == [users EXCEPT ![c] = UserService_update(@, data)]
           raised == UserNotNullViolation(data)
       IN  /\ users' = get_db(users, flushed, raised)
           /\ resp' = IF raised
                      THEN ServerError("update_my_profile", c, c, <<>>)
                      ELSE Response("update_my_profile", c, c, 200, "", <<>>)
    /\ UNCHANGED_but_users

\* GET /users
list_users(c, org_param) ==
    /\ Authenticated(c)
    /\ IF ~require_role({SUPERVISOR, MANAGER, ADMIN}, c)
       THEN resp' = Forbidden("list_users", c, NoId, [org_id |-> org_param])
       ELSE LET org_id == IF ~is_admin(c) THEN users[c].org_id
                          ELSE org_param
            IN  resp' = Response("list_users", c, NoId, 200, "",
                                 [org_id |-> org_param,
                                  items |-> UserService_get_all(org_id)])
    /\ UNCHANGED users
    /\ UNCHANGED_but_users

\* GET /users/{user_id}
get_user(c, user_id) ==
    /\ Authenticated(c)
    /\ resp' =
         IF ~require_role({SUPERVISOR, MANAGER, ADMIN}, c)
         THEN Forbidden("get_user", c, user_id, <<>>)
         ELSE IF get_user_by_id(user_id) = {}
         THEN NotFound("get_user", c, user_id, <<>>)
         ELSE IF ~is_admin(c) /\ users[user_id].org_id # users[c].org_id
         THEN AccessDenied("get_user", c, user_id, <<>>)
         ELSE Response("get_user", c, user_id, 200, "", users[user_id])
    /\ UNCHANGED users
    /\ UNCHANGED_but_users

\* UserCreate bodies
UserCreates ==
    [employee_code : {"E1", "E3"}, org_id : Orgs, role : {WORKER},
     pin : {"1111"}]

\* POST /users
create_user(c, body) ==
    /\ Authenticated(c)
    /\ DOMAIN users # UserIds
    /\ IF ~require_role({MANAGER, ADMIN}, c)
       THEN /\ resp' = Forbidden("create_user", c, NoId, <<>>)
            /\ UNCHANGED users
       ELSE LET data == IF ~is_admin(c)
                        THEN [body EXCEPT !.org_id = users[c].org_id]
                        ELSE body
                existing == get_user_by_employee_code(data.employee_code)
                id == NewId(users, UserIds)
                user == [org_id |-> data.org_id,
                         employee_code |-> data.employee_code,
                         role |-> data.role,
                         department |-> "general",
                         is_active |-> TRUE,
                         pin_hash |-> hash_pin(data.pin),
                         password_hash |-> NoHash]
                flushed == users @@ (id :> user)
            IN  IF existing # {}
                THEN /\ resp' = Response("create_user", c, NoId, 400,
                                         "Employee code already exists", <<>>)
                     /\ users' = get_db(users, users, TRUE)
                ELSE /\ resp' = Response("create_user", c, id, 201, "", <<>>)
                     /\ users' = get_db(users, flushed, FALSE)
    /\ UNCHANGED_but_users

\* PUT /users/{user_id}
update_user(c, user_id, body) ==
    /\ Authenticated(c)
    /\ IF ~require_role({MANAGER, ADMIN}, c)
       THEN /\ resp' = Forbidden("update_user", c, user_id, <<>>)
            /\ UNCHANGED users
       ELSE IF get_user_by_id(user_id) = {}
       THEN /\ resp' = NotFound("update_user", c, user_id, <<>>)
            /\ UNCHANGED users
       ELSE IF ~is_admin(c) /\ users[user_id].org_id # users[c].org_id
       THEN /\ resp' = AccessDenied("update_user", c, user_id, <<>>)
            /\ UNCHANGED users
       ELSE LET flushed ==
                    [users EXCEPT ![user_id] = UserService_update(@, body)]
                raised == UserNotNullViolation(body)
            IN  /\ users' = get_db(users, flushed, raised)
                /\ resp' = IF raised
                           THEN ServerError("update_user", c, user_id, <<>>)
                           ELSE Response("update_user", c, user_id, 200, "",
                                         <<>>)
    /\ UNCHANGED_but_users

\* DELETE /users/{user_id}  (UserService.delete: soft delete)
delete_user(c, user_id) ==
    /\ Authenticated(c)
    /\ IF ~require_role({ADMIN}, c)
       THEN /\ resp' = Forbidden("delete_user", c, user_id, <<>>)
            /\ UNCHANGED users
       ELSE IF get_user_by_id(user_id) = {}
       THEN /\ resp' = NotFound("delete_user", c, user_id, <<>>)
            /\ UNCHANGED users
       ELSE LET flushed == [users EXCEPT ![user_id].is_active = FALSE]
            IN  /\ users' = get_db(users, flushed, FALSE)
                /\ resp' = Response("delete_user", c, user_id, 200, "", <<>>)
    /\ UNCHANGED_but_users

\* POST /users/{user_id}/reset-pin
reset_user_pin(c, user_id, new_pin) ==
    /\ Authenticated(c)
    /\ IF ~require_role({MANAGER, ADMIN}, c)
       THEN /\ resp' = Forbidden("reset_user_pin", c, user_id, <<>>)
            /\ UNCHANGED users
       ELSE IF get_user_by_id(user_id) = {}
       THEN /\ resp' = NotFound("reset_user_pin", c, user_id, <<>>)
            /\ UNCHANGED users
       ELSE IF ~is_admin(c) /\ users[user_id].org_id # users[c].org_id
       THEN /\ resp' = AccessDenied("reset_user_pin", c, user_id, <<>>)
            /\ UNCHANGED users
       ELSE LET flushed ==
                    [users EXCEPT ![user_id].pin_hash = hash_pin(new_pin)]
            IN  /\ users' = get_db(users, flushed, FALSE)
                /\ resp' = Response("reset_user_pin", c, user_id, 200, "",
                                    <<>>)
    /\ UNCHANGED_but_users

\* ------------------------------------------------------------------------
\* Specification of authentication: login, refresh, bearer requests, the
\* clock, and (de)activation of users by an administrator
\* ------------------------------------------------------------------------
Presented == tokens \cup {ForgedToken}

NextAuth ==
    \/ \E code \in EmployeeCodes, pin \in Pins \cup {NULL},
          password \in Passwords \cup {NULL} : login(code, pin, password)
    \/ \E token \in Presented : refresh_access_token(token)
    \/ \E token \in Presented : get_current_user(token)
    \/ Tick
    \/ \E c \in UserIds, t \in UserIds : delete_user(c, t)
    \/ \E c \in UserIds, t \in UserIds :
          \E body \in {b \in UserUpdates :
                          b.role = UNSET /\ b.department = UNSET} :
              update_user(c, t, body)

SpecAuth == Init /\ [][NextAuth]_vars

\* ------------------------------------------------------------------------
\* Properties of authentication
\* ------------------------------------------------------------------------
\* C3: a bearer token is accepted by get_current_user only if it is an
\* access token issued by create_access_token less than
\* access_token_expire_minutes ago; a refresh token is never accepted as a
\* bearer credential.
C3_BearerIsFreshAccessToken ==
    (resp.op = "bearer" /\ resp.code = 200) =>
        /\ resp.data.token.type = "access"
        /\ resp.data.token \in tokens
        /\ now - (resp.data.token.exp - access_token_expire_minutes)
              < access_token_expire_minutes

\* the credentials of a login request verify against an active user
C4_CredentialsVerify(r) ==
    \E u \in DOMAIN users :
        /\ users[u].employee_code = r.employee_code
        /\ users[u].is_active
        /\ \/ r.pin # NULL /\ users[u].pin_hash = <<"bcrypt", r.pin>>
           \/ /\ r.password # NULL
              /\ users[u].password_hash = <<"bcrypt", r.password>>

\* C4: login answers with an access token and a refresh token exactly when
\* the employee code names an active user and the supplied PIN or the
\* supplied password verifies; otherwise it answers 401 'Invalid
\* credentials' and issues no token.
C4_LoginIffCredentials ==
    [][ resp'.op = "login" =>
          IF C4_CredentialsVerify(resp'.data.request)
          THEN /\ resp'.code = 200
               /\ \E a, r \in resp'.data.issued :
                      /\ a.type = "access" /\ r.type = "refresh"
                      /\ a.user_id = resp'.target /\ r.user_id = resp'.target
                      /\ resp'.data.issued = {a, r}
               /\ resp'.data.issued \subseteq tokens'
               /\ users[resp'.target].employee_code
                     = resp'.data.request.employee_code
          ELSE /\ resp'.code = 401
               /\ resp'.detail = "Invalid credentials"
               /\ resp'.data.issued = {}
               /\ tokens' = tokens ]_vars

\* a login whose PIN does not verify and whose password does
C4_Witness ==
    /\ resp.op = "login" /\ resp.code = 200
    /\ resp.data.request.pin # NULL
    /\ users[resp.target].pin_hash # <<"bcrypt", resp.data.request.pin>>
    /\ resp.data.request.password # NULL

\* C5: while a user's is_active flag is false, a login with the user's
\* employee code, a refresh with a token of the user and a bearer request
\* with a token of the user all answer 401.
C5_InactiveUserRejected ==
    /\ resp.op = "login" =>
          \A u \in DOMAIN users :
              (/\ users[u].employee_code = resp.data.request.employee_code
               /\ ~users[u].is_active) => resp.code = 401
    /\ resp.op \in {"refresh", "bearer"} =>
          \A u \in DOMAIN users :
              (u = resp.data.token.user_id /\ ~users[u].is_active)
                  => resp.code = 401

\* an unexpired, correctly signed access token of a deactivated user is
\* presented and refused
C5_Witness ==
    /\ resp.op = "bearer" /\ resp.code = 401
    /\ resp.data.token.sig = "valid" /\ resp.data.token.type = "access"
    /\ resp.data.token.exp > now
    /\ resp.data.token.user_id \in DOMAIN users
    /\ ~users[resp.data.token.user_id].is_active

\* ------------------------------------------------------------------------
\* Specification of user management: the /users endpoints
\* ------------------------------------------------------------------------
NextUsers ==
    \/ \E c \in UserIds, body \in UserUpdates : update_my_profile(c, body)
    \/ \E c \in UserIds, org_id \in Orgs \cup {NULL} : list_users(c, org_id)
    \/ \E c \in UserIds, t \in UserIds : get_user(c, t)
    \/ \E c \in UserIds, body \in UserCreates : create_user(c, body)
    \/ \E c \in UserIds, t \in UserIds, body \in UserUpdates :
          update_user(c, t, body)
    \/ \E c \in UserIds, t \in UserIds : delete_user(c, t)
    \/ \E c \in UserIds, t \in UserIds, new_pin \in {"2222"} :
          reset_user_pin(c, t, new_pin)

SpecUsers == Init /\ [][NextUsers]_vars

\* ------------------------------------------------------------------------
\* LocationService
\* ------------------------------------------------------------------------
LocationService_get_by_id(location_id) ==
    IF location_id \in DOMAIN locations THEN {location_id} ELSE {}

LocationService_get_by_code(org_id, code) ==
    {l \in DOMAIN locations :
        locations[l].org_id = org_id /\ locations[l].code = code}

LocationService_get_by_qr_code(qr_code) ==
    {l \in DOMAIN locations : locations[l].qr_code = qr_code}

\* LocationCreate bodies
LocationCreates ==
    [org_id : Orgs, parent_id : {NoId, 1, MaxLocations + 1},
     code : {"FARM", "SHED"}, qr_code : {NULL, "qr-1"}]

\* LocationUpdate bodies
LocationUpdates ==
    [qr_code : {UNSET, "qr-1", "qr-2"}, is_active : {UNSET, NULL, "true"}]

UNCHANGED_but_locations ==
    UNCHANGED <<users, tokens, now, farmTasks, daySchedules, scheduledTasks,
                taskUpdates,
                sessions, weatherCache, weatherCalls, notifications>>

\* LocationService.create without the organization check of the parent
LocationService_create_AnyParentOrg(data) ==
    LET id == NewId(locations, LocationIds)
        row == [org_id |-> data.org_id, parent_id |-> data.parent_id,
                code |-> data.code, qr_code |-> data.qr_code,
                is_active |-> TRUE]
    IN  IF LocationService_get_by_code(data.org_id, data.code) # {}
        THEN [code |-> 400, detail |-> "Location code already exists",
              id |-> NoId, table |-> locations]
        ELSE IF /\ data.parent_id # NoId
                /\ LocationService_get_by_id(data.parent_id) = {}
        THEN [code |-> 404, detail |-> "Parent location not found",
              id |-> NoId, table |-> locations]
        ELSE IF /\ data.qr_code # NULL
                /\ LocationService_get_by_qr_code(data.qr_code) # {}
        THEN [code |-> 400, detail |-> "QR code already exists",
              id |-> NoId, table |-> locations]
        ELSE [code |-> 201, detail |-> "", id |-> id,
              table |-> locations @@ (id :> row)]

\* LocationService.create: the response code, its detail, the flushed table
LocationService_create(data) ==
    LET id == NewId(locations, LocationIds)
        row == [org_id |-> data.org_id, parent_id |-> data.parent_id,
                code |-> data.code, qr_code |-> data.qr_code,
                is_active |-> TRUE]
    IN  IF LocationService_get_by_code(data.org_id, data.code) # {}
        THEN [code |-> 400, detail |-> "Location code already exists",
              id |-> NoId, table |-> locations]
        ELSE IF /\ data.parent_id # NoId
                /\ LocationService_get_by_id(data.parent_id) = {}
        THEN [code |-> 404, detail |-> "Parent location not found",
              id |-> NoId, table |-> locations]
        ELSE IF /\ data.parent_id # NoId
                /\ locations[data.parent_id].org_id # data.org_id
        THEN [code |-> 400,
              detail |-> "Parent location belongs to different organization",
              id |-> NoId, table |-> locations]
        ELSE IF /\ data.qr_code # NULL
                /\ LocationService_get_by_qr_code(data.qr_code) # {}
        THEN [code |-> 400, detail |-> "QR code already exists",
              id |-> NoId, table |-> locations]
        ELSE [code |-> 201, detail |-> "", id |-> id,
              table |-> locations @@ (id :> row)]

\* POST /locations
create_location(c, body) ==
    /\ Authenticated(c)
    /\ DOMAIN locations # LocationIds
    /\ IF ~require_role({MANAGER, ADMIN}, c)
       THEN /\ resp' = Forbidden("create_location", c, NoId, <<>>)
            /\ UNCHANGED locations
       ELSE LET data == IF ~is_admin(c)
                        THEN [body EXCEPT !.org_id = users[c].org_id]
                        ELSE body
                r == LocationService_create(data)
            IN  /\ resp' = Response("create_location", c, r.id, r.code,
                                    r.detail, <<>>)
                /\ locations' = get_db(locations, r.table, r.code # 201)
    /\ UNCHANGED_but_locations

\* LocationService.update: the response code, its detail, the flushed table
LocationService_update(location_id, data) ==
    LET location == locations[location_id]
        row == [location EXCEPT
                   !.qr_code = IF data.qr_code = UNSET
                               THEN @ ELSE data.qr_code,
                   !.is_active = IF data.is_active \in {UNSET, NULL}
                                 THEN @ ELSE data.is_active = "true"]
    IN  IF /\ data.qr_code \notin {UNSET, NULL}
           /\ data.qr_code # location.qr_code
           /\ LocationService_get_by_qr_code(data.qr_code) # {}
        THEN [code |-> 400, detail |-> "QR code already exists",
              table |-> locations]
        ELSE IF data.is_active = NULL
        THEN [code |-> 500, detail |-> "Internal Server Error",
              table |-> locations]
        ELSE [code |-> 200, detail |-> "",
              table |-> [locations EXCEPT ![location_id] = row]]

\* PUT /locations/{location_id}
update_location(c, location_id, body) ==
    /\ Authenticated(c)
    /\ IF ~require_role({MANAGER, ADMIN}, c)
       THEN /\ resp' = Forbidden("update_location", c, location_id, <<>>)
            /\ UNCHANGED locations
       ELSE IF LocationService_get_by_id(location_id) = {}
       THEN /\ resp' = NotFound("update_location", c, location_id, <<>>)
            /\ UNCHANGED locations
       ELSE IF /\ ~is_admin(c)
               /\ locations[location_id].org_id # users[c].org_id
       THEN /\ resp' = AccessDenied("update_location", c, location_id, <<>>)
            /\ UNCHANGED locations
       ELSE LET r == LocationService_update(location_id, body)
            IN  /\ resp' = Response("update_location", c, location_id, r.code,
                                    r.detail, <<>>)
                /\ locations' = get_db(locations, r.table, r.code # 200)
    /\ UNCHANGED_but_locations

\* LocationService.delete without the check for active children
LocationService_delete_NoChildCheck(location_id) ==
    IF LocationService_get_by_id(location_id) = {}
    THEN [code |-> 404, detail |-> "Not found", table |-> locations]
    ELSE [code |-> 200, detail |-> "",
          table |-> [locations EXCEPT ![location_id].is_active = FALSE]]

\* LocationService.delete (soft delete)
LocationService_delete(location_id) ==
    LET child_count ==
            Cardinality({l \in DOMAIN locations :
                            /\ locations[l].parent_id = location_id
                            /\ locations[l].is_active})
    IN  IF LocationService_get_by_id(location_id) = {}
        THEN [code |-> 404, detail |-> "Not found", table |-> locations]
        ELSE IF child_count > 0
        THEN [code |-> 400,
              detail |-> "Cannot delete location with active children",
              table |-> locations]
        ELSE [code |-> 200, detail |-> "",
              table |-> [locations EXCEPT ![location_id].is_active = FALSE]]

\* DELETE /locations/{location_id}
delete_location(c, location_id) ==
    /\ Authenticated(c)
    /\ IF ~require_role({ADMIN}, c)
       THEN /\ resp' = Forbidden("delete_location", c, location_id, <<>>)
            /\ UNCHANGED locations
       ELSE LET r == LocationService_delete(location_id)
            IN  /\ resp' = Response("delete_location", c, location_id, r.code,
                                    r.detail, <<>>)
                /\ locations' = get_db(locations, r.table, r.code # 200)
    /\ UNCHANGED_but_locations

\* ------------------------------------------------------------------------
\* Specification of role-based access control: every endpoint behind
\* require_role, on users and on locations
\* ------------------------------------------------------------------------
NextRbac ==
    \/ \E c \in UserIds, org_id \in {NULL} : list_users(c, org_id)
    \/ \E c \in UserIds, t \in {2} : get_user(c, t)
    \/ \E c \in UserIds :
          create_user(c, [employee_code |-> "E3", org_id |-> "o2",
                          role |-> WORKER, pin |-> "1111"])
    \/ \E c \in UserIds, t \in {2} :
          update_user(c, t, [role |-> SUPERVISOR, department |-> UNSET,
                             is_active |-> UNSET])
    \/ \E c \in UserIds, t \in {2} : delete_user(c, t)
    \/ \E c \in UserIds, t \in {2} : reset_user_pin(c, t, "1111")
    \/ \E c \in UserIds :
          create_location(c, [org_id |-> "o1", parent_id |-> 1,
                              code |-> "SHED", qr_code |-> NULL])
    \/ \E c \in UserIds, l \in {1} :
          update_location(c, l, [qr_code |-> "qr-2", is_active |-> UNSET])
    \/ \E c \in UserIds, l \in {1, 2} : delete_location(c, l)

SpecRbac == Init /\ [][NextRbac]_vars

\* ------------------------------------------------------------------------
\* Properties of access control and user management
\* ------------------------------------------------------------------------
C6_GatedOps ==
    {"list_users", "get_user", "create_user", "update_user", "delete_user",
     "reset_user_pin", "create_location", "update_location",
     "delete_location"}

C6_Required(op) ==
    IF op \in {"list_users", "get_user"} THEN {SUPERVISOR, MANAGER, ADMIN}
    ELSE IF op \in {"delete_user", "delete_location"} THEN {ADMIN}
    ELSE {MANAGER, ADMIN}

\* C6: an endpoint behind require_role(r1..rn) answers 403 'Insufficient
\* permissions' exactly when the caller's stored role is none of r1..rn,
\* and such a request changes no table; reading users needs supervisor,
\* manager or admin, creating or updating users or locations and resetting
\* a PIN need manager or admin, deleting a user or a location needs admin.
C6_RoleGate ==
    [][ resp'.op \in C6_GatedOps =>
          IF users[resp'.caller].role \in C6_Required(resp'.op)
          THEN ~(resp'.code = 403 /\ resp'.detail = "Insufficient permissions")
          ELSE /\ resp'.code = 403
               /\ resp'.detail = "Insufficient permissions"
               /\ UNCHANGED <<users, tokens, now, locations, farmTasks,
                              daySchedules, scheduledTasks, taskUpdates,
                              sessions, weatherCache, weatherCalls,
                              notifications>>
      ]_vars

\* a manager is refused the deletion of a location
C6_Witness ==
    /\ resp.op = "delete_location" /\ resp.code = 403
    /\ resp.detail = "Insufficient permissions"
    /\ users[resp.caller].role = MANAGER

\* C7: the role or the department of a user changes only in a request
\* whose caller has role admin.
C7_RoleChangeOnlyByAdmin ==
    [][ \A u \in DOMAIN users :
          (\/ users'[u].role # users[u].role
           \/ users'[u].department # users[u].department)
              => users[resp'.caller].role = ADMIN ]_vars

\* C8: for a caller who is not admin, get_user, update_user and
\* reset_user_pin on a user of another organization answer 403 and leave
\* that user unchanged; list_users returns exactly the users of the
\* caller's organization whatever org_id is passed; a user the caller
\* creates receives the caller's org_id.
C8_OrgConfinement ==
    [][ LET c == resp'.caller
            t == resp'.target
        IN  (c \in DOMAIN users /\ users[c].role # ADMIN) =>
              /\ (/\ resp'.op \in {"get_user", "update_user",
                                   "reset_user_pin"}
                  /\ t \in DOMAIN users
                  /\ users[t].org_id # users[c].org_id)
                     => (resp'.code = 403 /\ users'[t] = users[t])
              /\ (resp'.op = "list_users" /\ resp'.code = 200)
                     => resp'.data.items =
                           {u \in DOMAIN users :
                               users[u].org_id = users[c].org_id}
              /\ (resp'.op = "create_user" /\ resp'.code = 201)
                     => /\ t \notin DOMAIN users
                        /\ t \in DOMAIN users'
                        /\ users'[t].org_id = users[c].org_id ]_vars

\* a manager is refused the update of a user of another organization
C8_Witness ==
    /\ resp.op = "update_user" /\ resp.code = 403
    /\ resp.detail = "Access denied"
    /\ users[resp.caller].role = MANAGER
    /\ users[resp.target].org_id # users[resp.caller].org_id

\* ------------------------------------------------------------------------
\* ScheduleService and the /farm/scheduled-tasks endpoints
\* ------------------------------------------------------------------------
UNCHANGED_but_schedule ==
    UNCHANGED <<users, tokens, now, locations, farmTasks,
                    sessions, weatherCache, weatherCalls, notifications>>

\* ScheduledTaskUpdate bodies
ScheduledTaskUpdates == [description_tamil : {UNSET, NULL, "t2"}]

TaskStatusUpdateRequests == [status : {"in_progress"}]

TaskIssueRequests == [issue_type : {"weather"}]

ScheduleService_get_task_by_id(task_id) ==
    {t \in DOMAIN scheduledTasks : t = task_id}

TaskNotFound(op, c, t, data) ==
    Response(op, c, t, 404, "Task not found", data)

\* ScheduleService.update_task: the response code and the flushed table
ScheduleService_update_task(task_id, data) ==
    IF ScheduleService_get_task_by_id(task_id) = {}
    THEN [code |-> 404, tasks |-> scheduledTasks]
    ELSE LET flushed ==
                 [scheduledTasks EXCEPT ![task_id].description_tamil =
                     IF data.description_tamil = UNSET THEN @
                     ELSE data.description_tamil]
         IN  IF flushed[task_id].description_tamil = NULL
             THEN [code |-> 500, tasks |-> flushed]
             ELSE [code |-> 200, tasks |-> flushed]

\* PUT /farm/scheduled-tasks/{task_id}
update_scheduled_task(c, task_id, data) ==
    /\ Authenticated(c)
    /\ LET r == ScheduleService_update_task(task_id, data)
       IN  /\ resp' = IF r.code = 404
                      THEN TaskNotFound("update_scheduled_task", c, task_id,
                                        data)
                      ELSE IF r.code = 500
                      THEN ServerError("update_scheduled_task", c, task_id,
                                       data)
                      ELSE Response("update_scheduled_task", c, task_id, 200,
                                    "", data)
           /\ scheduledTasks' =
                  get_db(scheduledTasks, r.tasks, r.code # 200)
    /\ UNCHANGED <<daySchedules, taskUpdates, notifications>>
    /\ UNCHANGED_but_schedule

\* ScheduleService.update_task_status: the code, the flushed tasks and the
\* flushed history
ScheduleService_update_task_status(task_id, data, user) ==
    IF ScheduleService_get_task_by_id(task_id) = {}
    THEN [code |-> 404, tasks |-> scheduledTasks, updates |-> taskUpdates]
    ELSE [code |-> 200,
          tasks |-> [scheduledTasks EXCEPT ![task_id].status = data.status],
          updates |-> Append(taskUpdates,
                             TaskUpdate(task_id, user, data.status))]

\* PATCH /farm/scheduled-tasks/{task_id}/update
update_task_status(c, task_id, data) ==
    /\ Authenticated(c)
    /\ Len(taskUpdates) < MaxUpdates
    /\ LET r == ScheduleService_update_task_status(task_id, data, c)
       IN  /\ resp' = IF r.code = 404
                      THEN TaskNotFound("update_task_status", c, task_id,
                                        data)
                      ELSE Response("update_task_status", c, task_id, 200,
                                    "", data)
           /\ scheduledTasks' = r.tasks
           /\ taskUpdates' = r.updates
    /\ UNCHANGED daySchedules
    /\ UNCHANGED_but_schedule

\* complete_task that sets the status and writes no history row
ScheduleService_complete_task_NoLog(task_id, user) ==
    IF ScheduleService_get_task_by_id(task_id) = {}
    THEN [code |-> 404, tasks |-> scheduledTasks, updates |-> taskUpdates]
    ELSE [code |-> 200,
          tasks |-> [scheduledTasks EXCEPT ![task_id].status = "completed",
                                           ![task_id].completed_at = now],
          updates |-> taskUpdates]

\* ScheduleService.complete_task
ScheduleService_complete_task(task_id, user) ==
    IF ScheduleService_get_task_by_id(task_id) = {}
    THEN [code |-> 404, tasks |-> scheduledTasks, updates |-> taskUpdates]
    ELSE [code |-> 200,
          tasks |-> [scheduledTasks EXCEPT ![task_id].status = "completed",
                                           ![task_id].completed_at = now],
          updates |-> Append(taskUpdates,
                             TaskUpdate(task_id, user, "completed"))]

\* PATCH /farm/scheduled-tasks/{task_id}/complete
complete_task(c, task_id) ==
    /\ Authenticated(c)
    /\ Len(taskUpdates) < MaxUpdates
    /\ LET r == ScheduleService_complete_task(task_id, c)
       IN  /\ resp' = IF r.code = 404
                      THEN TaskNotFound("complete_task", c, task_id, <<>>)
                      ELSE Response("complete_task", c, task_id, 200, "",
                                    <<>>)
           /\ scheduledTasks' = r.tasks
           /\ taskUpdates' = r.updates
    /\ UNCHANGED daySchedules
    /\ UNCHANGED_but_schedule

\* ScheduleService.report_task_issue
ScheduleService_report_task_issue(task_id, data, user) ==
    IF ScheduleService_get_task_by_id(task_id) = {}
    THEN [code |-> 404, tasks |-> scheduledTasks, updates |-> taskUpdates]
    ELSE [code |-> 200,
          tasks |-> [scheduledTasks EXCEPT
                         ![task_id].status = "has_issues",
                         ![task_id].has_issues = TRUE,
                         ![task_id].issue_type = data.issue_type],
          updates |-> Append(taskUpdates,
                             TaskUpdate(task_id, user, "has_issues"))]

\* POST /farm/scheduled-tasks/{task_id}/issue
report_task_issue(c, task_id, data) ==
    /\ Authenticated(c)
    /\ Len(taskUpdates) < MaxUpdates
    /\ LET r == ScheduleService_report_task_issue(task_id, data, c)
       IN  /\ resp' = IF r.code = 404
                      THEN TaskNotFound("report_task_issue", c, task_id,
                                        data)
                      ELSE Response("report_task_issue", c, task_id, 200,
                                    "", data)
           /\ scheduledTasks' = r.tasks
           /\ taskUpdates' = r.updates
    /\ UNCHANGED daySchedules
    /\ UNCHANGED_but_schedule

\* the requests that act on one scheduled task
NextSched ==
    \/ \E c \in UserIds, t \in TaskIds, data \in ScheduledTaskUpdates :
          update_scheduled_task(c, t, data)
    \/ \E c \in UserIds, t \in TaskIds, data \in TaskStatusUpdateRequests :
          update_task_status(c, t, data)
    \/ \E c \in UserIds, t \in TaskIds : complete_task(c, t)
    \/ \E c \in UserIds, t \in TaskIds, data \in TaskIssueRequests :
          report_task_issue(c, t, data)

SpecSched == Init /\ [][NextSched]_vars

\* ------------------------------------------------------------------------
\* Properties of scheduled tasks and their history
\* ------------------------------------------------------------------------
C1_TaskOps ==
    {"update_scheduled_task", "update_task_status", "complete_task",
     "report_task_issue"}

\* C1: a request by a user to PUT /farm/scheduled-tasks/{id},
\* PATCH /{id}/update, PATCH /{id}/complete or POST /{id}/issue on a
\* scheduled task of another organization changes no field of the task
\* and appends no TaskUpdate row for it.
C1_OtherOrgTaskUntouched ==
    [][ LET c == resp'.caller
            t == resp'.target
        IN  (/\ resp'.op \in C1_TaskOps
             /\ t \in DOMAIN scheduledTasks
             /\ scheduledTasks[t].org_id # users[c].org_id)
               => /\ scheduledTasks'[t] = scheduledTasks[t]
                  /\ taskUpdates' = taskUpdates ]_vars

C9_StatusOps == {"update_task_status", "complete_task", "report_task_issue"}

\* the status an operation of C9_StatusOps writes
C9_Status(r) ==
    IF r.op = "update_task_status" THEN r.data.status
    ELSE IF r.op = "complete_task" THEN "completed"
    ELSE "has_issues"

ScheduledTaskCreates == [field_id : {NoId} \cup FieldIds]

MaxRequestTasks == 2

\* DayScheduleCreate bodies
DayScheduleCreates ==
    [date : Dates,
     tasks : UNION {[1..n -> ScheduledTaskCreates] : n \in 0..MaxRequestTasks}]

ScheduleService_get_schedule_by_date(org_id, schedule_date) ==
    {s \in DOMAIN daySchedules :
        /\ daySchedules[s].org_id = org_id
        /\ daySchedules[s].schedule_date = schedule_date}

\* _create_task that stores the status of a new farm task
ScheduleService__create_task_Pending(org_id, schedule_id, data) ==
    [ScheduledTask(org_id, schedule_id, data.field_id, "t1")
        EXCEPT !.status = "pending"]

\* ScheduleService._create_task
ScheduleService__create_task(org_id, schedule_id, data) ==
    ScheduledTask(org_id, schedule_id, data.field_id, "t1")

\* the foreign key scheduled_tasks.field_id -> fields.id fails at the flush
FieldForeignKeyViolation(tasks) ==
    \E t \in DOMAIN tasks : tasks[t].field_id \notin {NoId} \cup SeedFields

\* a day_schedules table created without the unique index
DayScheduleUniqueViolation_NoIndex(schedules) == FALSE

\* the unique index on day_schedules (org_id, schedule_date) fails at the
\* flush
DayScheduleUniqueViolation(schedules) ==
    \E s1, s2 \in DOMAIN schedules :
        /\ s1 # s2
        /\ schedules[s1].org_id = schedules[s2].org_id
        /\ schedules[s1].schedule_date = schedules[s2].schedule_date

\* the n smallest ids of All that are not keys of table, in order
RECURSIVE NewIds(_, _, _)
NewIds(table, All, n) ==
    IF n = 0 THEN <<>>
    ELSE LET i == NewId(table, All)
         IN  <<i>> \o NewIds(table @@ (i :> <<>>), All, n - 1)

\* ScheduleService.create_schedule: the code, the detail, the id of the new
\* schedule and the flushed tables
ScheduleService_create_schedule(org_id, data, created_by) ==
    IF ScheduleService_get_schedule_by_date(org_id, data.date) # {}
    THEN [code |-> 400, detail |-> "Schedule already exists", id |-> NoId,
          schedules |-> daySchedules, tasks |-> scheduledTasks]
    ELSE LET id == NewId(daySchedules, ScheduleIds)
             schedules ==
                 daySchedules @@
                 (id :> DaySchedule(org_id, data.date, created_by))
             ids == NewIds(scheduledTasks, TaskIds, Len(data.tasks))
             tasks ==
                 scheduledTasks @@
                 [t \in {ids[k] : k \in 1..Len(ids)} |->
                     LET k == CHOOSE k \in 1..Len(ids) : ids[k] = t
                     IN  ScheduleService__create_task(org_id, id,
                                                      data.tasks[k])]
         IN  IF \/ DayScheduleUniqueViolation(schedules)
                \/ FieldForeignKeyViolation(tasks)
             THEN [code |-> 500, detail |-> "Internal Server Error",
                   id |-> NoId, schedules |-> schedules, tasks |-> tasks]
             ELSE [code |-> 200, detail |-> "", id |-> id,
                   schedules |-> schedules, tasks |-> tasks]

\* POST /farm/schedules
create_schedule(c, data) ==
    /\ Authenticated(c)
    /\ \/ ScheduleService_get_schedule_by_date(users[c].org_id, data.date)
             # {}
       \/ /\ ScheduleIds \ DOMAIN daySchedules # {}
          /\ Cardinality(TaskIds \ DOMAIN scheduledTasks) >= Len(data.tasks)
    /\ LET r == ScheduleService_create_schedule(users[c].org_id, data, c)
       IN  /\ resp' = Response("create_schedule", c, r.id, r.code, r.detail,
                               data)
           /\ daySchedules' = get_db(daySchedules, r.schedules, r.code # 200)
           /\ scheduledTasks' =
                  get_db(scheduledTasks, r.tasks, r.code # 200)
    /\ UNCHANGED taskUpdates
    /\ UNCHANGED_but_schedule

\* ScheduleService.create_task: a standalone task
ScheduleService_create_task(org_id, data) ==
    LET id == NewId(scheduledTasks, TaskIds)
        tasks == scheduledTasks @@
                 (id :> ScheduleService__create_task(org_id, NoId, data))
    IN  IF FieldForeignKeyViolation(tasks)
        THEN [code |-> 500, id |-> NoId, tasks |-> tasks]
        ELSE [code |-> 200, id |-> id, tasks |-> tasks]

\* POST /farm/scheduled-tasks
create_scheduled_task(c, data) ==
    /\ Authenticated(c)
    /\ TaskIds \ DOMAIN scheduledTasks # {}
    /\ LET r == ScheduleService_create_task(users[c].org_id, data)
       IN  /\ resp' = IF r.code = 500
                      THEN ServerError("create_scheduled_task", c, NoId,
                                       data)
                      ELSE Response("create_scheduled_task", c, r.id, 200,
                                    "", data)
           /\ scheduledTasks' =
                  get_db(scheduledTasks, r.tasks, r.code # 200)
    /\ UNCHANGED <<daySchedules, taskUpdates, notifications>>
    /\ UNCHANGED_but_schedule

NextSchedule ==
    \/ \E c \in UserIds, data \in DayScheduleCreates :
          create_schedule(c, data)
    \/ \E c \in UserIds, data \in ScheduledTaskCreates :
          create_scheduled_task(c, data)

SpecSchedule == Init /\ [][NextSchedule]_vars

\* C10: create_schedule for an (org_id, date) that already has a day
\* schedule answers 400 'Schedule already exists' and leaves the day
\* schedules and the scheduled tasks as they were; a successful
\* create_schedule adds one DaySchedule and exactly one ScheduledTask per
\* task of the request, each with the caller's org_id, the id of the new
\* schedule and status 'scheduled'.
C10_CreateSchedule ==
    [][ resp'.op = "create_schedule" =>
          LET c == resp'.caller
              s == resp'.target
              org == users[c].org_id
              newTasks == DOMAIN scheduledTasks' \ DOMAIN scheduledTasks
          IN  /\ (\E e \in DOMAIN daySchedules :
                     /\ daySchedules[e].org_id = org
                     /\ daySchedules[e].schedule_date = resp'.data.date)
                    => /\ resp'.code = 400
                       /\ resp'.detail = "Schedule already exists"
                       /\ daySchedules' = daySchedules
                       /\ scheduledTasks' = scheduledTasks
              /\ resp'.code = 200 =>
                    /\ s \notin DOMAIN daySchedules
                    /\ DOMAIN daySchedules' = DOMAIN daySchedules \cup {s}
                    /\ daySchedules'[s].org_id = org
                    /\ daySchedules'[s].schedule_date = resp'.data.date
                    /\ \A e \in DOMAIN daySchedules :
                          daySchedules'[e] = daySchedules[e]
                    /\ DOMAIN scheduledTasks \subseteq DOMAIN scheduledTasks'
                    /\ \A t \in DOMAIN scheduledTasks :
                          scheduledTasks'[t] = scheduledTasks[t]
                    /\ Cardinality(newTasks) = Len(resp'.data.tasks)
                    /\ \A t \in newTasks :
                          /\ scheduledTasks'[t].org_id = org
                          /\ scheduledTasks'[t].schedule_id = s
                          /\ scheduledTasks'[t].status = "scheduled"
      ]_vars

\* a schedule with two tasks was created, and a second request for its
\* organization and date was refused
C10_Witness ==
    /\ resp.op = "create_schedule" /\ resp.code = 400
    /\ \E s \in DOMAIN daySchedules :
          /\ daySchedules[s].org_id = users[resp.caller].org_id
          /\ daySchedules[s].schedule_date = resp.data.date
          /\ Cardinality({t \in DOMAIN scheduledTasks :
                             scheduledTasks[t].schedule_id = s}) = 2

\* ------------------------------------------------------------------------
\* TaskService and the /farm/tasks endpoints
\* ------------------------------------------------------------------------
UNCHANGED_but_farmTasks ==
    UNCHANGED <<users, tokens, now, locations, daySchedules, scheduledTasks,
                taskUpdates,
                sessions, weatherCache, weatherCalls, notifications>>

FarmTaskIds == 1..MaxTasks

\* FarmTaskUpdate bodies
FarmTaskUpdates == [title : {UNSET, NULL, "t2"}]

\* TaskCompleteRequest and TaskPostponeRequest bodies
TaskCompleteRequests == [feedback : {"good"}, rating : {5}]

TaskPostponeRequests == [postponed_to : {"d2"}, postpone_reason : {"rain"}]

TaskService_get_task_by_id(task_id) ==
    {t \in DOMAIN farmTasks : t = task_id}

\* the NOT NULL constraint of farm_tasks.title fails at the flush
FarmTaskNotNullViolation(row) == row.title = NULL

\* TaskService.update_task: the flushed table
TaskService_update_task(task_id, data) ==
    [farmTasks EXCEPT ![task_id].title =
        IF data.title = UNSET THEN @ ELSE data.title]

\* TaskService.start_task
TaskService_start_task(task_id) ==
    [farmTasks EXCEPT ![task_id].status = "in_progress",
                      ![task_id].started_at = now]

\* TaskService.complete_task
TaskService_complete_task(task_id, feedback, rating) ==
    [farmTasks EXCEPT ![task_id].status = "completed",
                      ![task_id].completed_at = now,
                      ![task_id].feedback =
                          IF feedback # NULL THEN feedback ELSE @,
                      ![task_id].rating =
                          IF rating # NoRating THEN rating ELSE @]

\* TaskService.postpone_task
TaskService_postpone_task(task_id, postponed_to, reason) ==
    [farmTasks EXCEPT ![task_id].status = "postponed",
                      ![task_id].postponed_to = postponed_to,
                      ![task_id].postpone_reason = reason]

\* what every endpoint does once the service has flushed: 404 for no task,
\* 403 for a task of another organization, else commit
FarmTaskEndpoint(op, c, task_id, flushed) ==
    /\ resp' = IF task_id \notin DOMAIN flushed
               THEN TaskNotFound(op, c, task_id, <<>>)
               ELSE IF flushed[task_id].org_id # users[c].org_id
               THEN AccessDenied(op, c, task_id, <<>>)
               ELSE Response(op, c, task_id, 200, "", <<>>)
    /\ farmTasks' =
          get_db(farmTasks, flushed,
                 \/ task_id \notin DOMAIN flushed
                 \/ flushed[task_id].org_id # users[c].org_id)
    /\ UNCHANGED_but_farmTasks

\* PUT /farm/tasks/{task_id}
update_task(c, task_id, data) ==
    /\ Authenticated(c)
    /\ IF TaskService_get_task_by_id(task_id) = {}
       THEN FarmTaskEndpoint("update_task", c, task_id, farmTasks)
       ELSE LET flushed == TaskService_update_task(task_id, data)
            IN  IF FarmTaskNotNullViolation(flushed[task_id])
                THEN /\ resp' = ServerError("update_task", c, task_id, <<>>)
                     /\ farmTasks' = get_db(farmTasks, flushed, TRUE)
                     /\ UNCHANGED_but_farmTasks
                ELSE FarmTaskEndpoint("update_task", c, task_id, flushed)

\* POST /farm/tasks/{task_id}/start
start_task(c, task_id) ==
    /\ Authenticated(c)
    /\ FarmTaskEndpoint("start_task", c, task_id,
          IF TaskService_get_task_by_id(task_id) = {} THEN farmTasks
          ELSE TaskService_start_task(task_id))

\* POST /farm/tasks/{task_id}/complete
tasks_complete_task(c, task_id, data) ==
    /\ Authenticated(c)
    /\ FarmTaskEndpoint("tasks_complete_task", c, task_id,
          IF TaskService_get_task_by_id(task_id) = {} THEN farmTasks
          ELSE TaskService_complete_task(task_id, data.feedback,
                                         data.rating))

\* POST /farm/tasks/{task_id}/postpone
postpone_task(c, task_id, data) ==
    /\ Authenticated(c)
    /\ FarmTaskEndpoint("postpone_task", c, task_id,
          IF TaskService_get_task_by_id(task_id) = {} THEN farmTasks
          ELSE TaskService_postpone_task(task_id, data.postponed_to,
                                         data.postpone_reason))

NextFarm ==
    \/ \E c \in UserIds, t \in FarmTaskIds, data \in FarmTaskUpdates :
          update_task(c, t, data)
    \/ \E c \in UserIds, t \in FarmTaskIds : start_task(c, t)
    \/ \E c \in UserIds, t \in FarmTaskIds, data \in TaskCompleteRequests :
          tasks_complete_task(c, t, data)
    \/ \E c \in UserIds, t \in FarmTaskIds, data \in TaskPostponeRequests :
          postpone_task(c, t, data)

SpecFarm == Init /\ [][NextFarm]_vars

C2_FarmOps ==
    {"update_task", "start_task", "tasks_complete_task", "postpone_task"}

\* C2: for a farm task of another organization than the caller's, each of
\* PUT /farm/tasks/{id}, POST /{id}/start, POST /{id}/complete and
\* POST /{id}/postpone answers 403 'Access denied', and the committed row
\* of the task is the same as before the request.
C2_OtherOrgFarmTaskDenied ==
    [][ LET c == resp'.caller
            t == resp'.target
        IN  (/\ resp'.op \in C2_FarmOps
             /\ t \in DOMAIN farmTasks
             /\ farmTasks[t].org_id # users[c].org_id)
               => /\ resp'.code = 403
                  /\ resp'.detail = "Access denied"
                  /\ farmTasks'[t] = farmTasks[t] ]_vars

\* ------------------------------------------------------------------------
\* Concurrent create_schedule requests: each request runs in its own
\* database session and yields at every await (the lookup, the two flushes,
\* the commit)
\* ------------------------------------------------------------------------
MaxRequests == 2
Requests == 1..MaxRequests

\* rows flushed by the sessions in flight and not committed yet
UncommittedSchedules(rs) ==
    {<<r, s>> \in rs \X ScheduleIds :
        r \in DOMAIN sessions /\ s \in DOMAIN sessions[r].schedules}

UsedScheduleIds ==
    DOMAIN daySchedules \cup {p[2] : p \in UncommittedSchedules(Requests)}

UsedTaskIds ==
    DOMAIN scheduledTasks \cup
    UNION {DOMAIN sessions[r].tasks : r \in DOMAIN sessions}

\* a session that raised is closed without a commit; one that committed is
\* closed as well
CloseSession(r) == [q \in DOMAIN sessions \ {r} |-> sessions[q]]

UNCHANGED_but_sessions ==
    UNCHANGED <<users, tokens, now, locations, farmTasks, taskUpdates,
                weatherCache, weatherCalls, notifications>>

\* POST /farm/schedules up to the lookup of create_schedule: 400 when the
\* committed table holds a schedule for the date, else the request goes on
create_schedule_begin(r, c, data) ==
    /\ r \notin DOMAIN sessions
    /\ Authenticated(c)
    /\ IF ScheduleService_get_schedule_by_date(users[c].org_id, data.date)
             # {}
       THEN /\ resp' = Response("create_schedule", c, NoId, 400,
                                "Schedule already exists", data)
            /\ UNCHANGED sessions
       ELSE /\ sessions' = sessions @@
                  (r :> [caller |-> c, data |-> data, pc |-> "checked",
                         schedules |-> <<>>, tasks |-> <<>>])
            /\ resp' = Response("create_schedule_begin", c, NoId, 0, "",
                                data)
    /\ UNCHANGED <<daySchedules, scheduledTasks, notifications>>
    /\ UNCHANGED_but_sessions

\* the first flush: INSERT INTO day_schedules. The unique index makes the
\* insert wait while another session holds an uncommitted row with the same
\* key, and fail when a committed row has it
create_schedule_flush_schedule(r) ==
    /\ r \in DOMAIN sessions
    /\ sessions[r].pc = "checked"
    /\ ScheduleIds \ UsedScheduleIds # {}
    /\ LET c == sessions[r].caller
           data == sessions[r].data
           id == CHOOSE i \in ScheduleIds \ UsedScheduleIds :
                    \A j \in ScheduleIds \ UsedScheduleIds : i <= j
           row == DaySchedule(users[c].org_id, data.date, c)
           others == UncommittedSchedules(Requests \ {r})
           held == \E p \in others :
                      DayScheduleUniqueViolation(
                          (1 :> sessions[p[1]].schedules[p[2]]) @@
                          (2 :> row))
           flushed == daySchedules @@ (id :> row)
       IN  /\ ~held
           /\ IF DayScheduleUniqueViolation(flushed)
              THEN /\ resp' = ServerError("create_schedule", c, NoId, data)
                   /\ sessions' = CloseSession(r)
              ELSE /\ resp' = Response("create_schedule_flush", c, id, 0,
                                       "", data)
                   /\ sessions' =
                         [sessions EXCEPT ![r].pc = "schedule_flushed",
                                          ![r].schedules = (id :> row)]
    /\ UNCHANGED <<daySchedules, scheduledTasks, notifications>>
    /\ UNCHANGED_but_sessions

\* the loop over data.tasks and the second flush
create_schedule_flush_tasks(r) ==
    /\ r \in DOMAIN sessions
    /\ sessions[r].pc = "schedule_flushed"
    /\ LET c == sessions[r].caller
           data == sessions[r].data
           id == CHOOSE s \in DOMAIN sessions[r].schedules : TRUE
           used == [t \in UsedTaskIds |-> <<>>]
       IN  /\ Cardinality(TaskIds \ UsedTaskIds) >= Len(data.tasks)
           /\ LET ids == NewIds(used, TaskIds, Len(data.tasks))
                  tasks ==
                      [t \in {ids[k] : k \in 1..Len(ids)} |->
                          LET k == CHOOSE k \in 1..Len(ids) : ids[k] = t
                          IN  ScheduleService__create_task(
                                  users[c].org_id, id, data.tasks[k])]
              IN  IF FieldForeignKeyViolation(tasks)
                  THEN /\ resp' = ServerError("create_schedule", c, NoId,
                                              data)
                       /\ sessions' = CloseSession(r)
                  ELSE /\ resp' = Response("create_schedule_flush", c, id,
                                           0, "", data)
                       /\ sessions' =
                             [sessions EXCEPT ![r].pc = "tasks_flushed",
                                              ![r].tasks = tasks]
    /\ UNCHANGED <<daySchedules, scheduledTasks, notifications>>
    /\ UNCHANGED_but_sessions

\* await db.commit() in the endpoint, and the response
create_schedule_commit(r) ==
    /\ r \in DOMAIN sessions
    /\ sessions[r].pc = "tasks_flushed"
    /\ LET id == CHOOSE s \in DOMAIN sessions[r].schedules : TRUE
       IN  resp' = Response("create_schedule", sessions[r].caller, id, 200,
                            "", sessions[r].data)
    /\ daySchedules' = daySchedules @@ sessions[r].schedules
    /\ scheduledTasks' = scheduledTasks @@ sessions[r].tasks
    /\ sessions' = CloseSession(r)
    /\ UNCHANGED_but_sessions

NextRace ==
    \/ \E r \in Requests, c \in UserIds, date \in Dates,
          tasks \in {<<>>, <<[field_id |-> 1]>>, <<[field_id |-> 9]>>} :
          create_schedule_begin(r, c, [date |-> date, tasks |-> tasks])
    \/ \E r \in Requests : create_schedule_flush_schedule(r)
    \/ \E r \in Requests : create_schedule_flush_tasks(r)
    \/ \E r \in Requests : create_schedule_commit(r)

SpecRace == Init /\ [][NextRace]_vars

\* C11: after any interleaving of create_schedule requests at most one
\* DaySchedule exists for an (org_id, schedule_date), and a ScheduledTask of
\* a schedule is committed only in the step that commits its schedule: no
\* task persists of a request whose schedule was not created.
C11_OneSchedulePerDate ==
    [][ /\ \A s1, s2 \in DOMAIN daySchedules' :
              (/\ daySchedules'[s1].org_id = daySchedules'[s2].org_id
               /\ daySchedules'[s1].schedule_date =
                     daySchedules'[s2].schedule_date) => s1 = s2
        /\ \A t \in DOMAIN scheduledTasks' \ DOMAIN scheduledTasks :
              /\ scheduledTasks'[t].schedule_id \in
                    DOMAIN daySchedules' \ DOMAIN daySchedules
              /\ scheduledTasks'[t].org_id =
                    daySchedules'[scheduledTasks'[t].schedule_id].org_id
        /\ \A t \in DOMAIN scheduledTasks :
              t \in DOMAIN scheduledTasks'
      ]_vars

\* a request with a valid task lost the race: it passed the lookup, its
\* insert failed on the unique index, and the winner's schedule is the only
\* one for the date
C11_Witness ==
    /\ resp.op = "create_schedule" /\ resp.code = 500
    /\ resp.data.tasks = <<[field_id |-> 1]>>
    /\ \E s \in DOMAIN daySchedules :
          /\ daySchedules[s].org_id = users[resp.caller].org_id
          /\ daySchedules[s].schedule_date = resp.data.date
    /\ \A t \in DOMAIN scheduledTasks :
          scheduledTasks[t].schedule_id \in {NoId} \cup DOMAIN daySchedules

\* ------------------------------------------------------------------------
\* WeatherCache, WeatherService and the /weather endpoints
\* ------------------------------------------------------------------------
\* WeatherService(cache_ttl_minutes=15)
cache_ttl_minutes == 15

cache_key == "tiruvannamalai"

MaxCalls == 2
CallIds == 1..MaxCalls

\* the instants the weather requests are observed at, minutes
WeatherTimePoints ==
    { 0, 1, cache_ttl_minutes - 1, cache_ttl_minutes, cache_ttl_minutes + 1,
      2 * cache_ttl_minutes, 2 * cache_ttl_minutes + 1 }

\* what _parse_imd_response makes of an upstream answer: two observations,
\* and one whose wind_direction is not a string (WeatherResponse rejects it)
WeatherPayloads == {"w1", "w2", "w_untyped"}

\* the dict the service returns; "cached" is a key of that same dict
WeatherData(weather, cached) == [weather |-> weather, cached |-> cached]

\* a fallback record that claims to come from the cache
get_fallback_data_Cached == WeatherData("fallback", TRUE)

\* _get_fallback_data
get_fallback_data == WeatherData("fallback", FALSE)

UNCHANGED_but_weather ==
    UNCHANGED <<users, tokens, locations, farmTasks, daySchedules,
                scheduledTasks, taskUpdates, sessions, notifications>>

\* WeatherCache.get that never expires an entry
WeatherCache_get_NoExpiry(cache, key, t) ==
    IF key \in DOMAIN cache
    THEN [hit |-> TRUE, data |-> cache[key].data, cache |-> cache]
    ELSE [hit |-> FALSE, data |-> get_fallback_data, cache |-> cache]

\* WeatherCache.get at time t: whether it returns data, the data, and the
\* cache it leaves (an expired entry is deleted)
WeatherCache_get(cache, key, t) ==
    IF key \in DOMAIN cache
    THEN IF t - cache[key].timestamp < cache_ttl_minutes
         THEN [hit |-> TRUE, data |-> cache[key].data, cache |-> cache]
         ELSE [hit |-> FALSE, data |-> get_fallback_data,
               cache |-> [k \in DOMAIN cache \ {key} |-> cache[k]]]
    ELSE [hit |-> FALSE, data |-> get_fallback_data, cache |-> cache]

\* WeatherCache.set at time t
WeatherCache_set(cache, key, data, t) ==
    [k \in DOMAIN cache \cup {key} |->
        IF k = key THEN [data |-> data, timestamp |-> t] ELSE cache[k]]

\* WeatherResponse(**weather_data) validates
WeatherResponse_validates(data) == data.weather # "w_untyped"

\* the endpoint's answer for what the service returned
WeatherEndpoint(op, c, k, data) ==
    IF WeatherResponse_validates(data)
    THEN Response(op, c, k, 200, "", data)
    ELSE Response(op, c, k, 503, "Weather service temporarily unavailable",
                  data)

\* a fetch that stores the result and leaves "cached" out of the returned
\* dict's update (returns the stale flag of a fallback)
WeatherFetched_Flag(weather) == WeatherData(weather, TRUE)

\* the dict of a fetch once weather_data["cached"] = False has run; the cache
\* holds this same dict
WeatherFetched(weather) == WeatherData(weather, FALSE)

\* GET /weather/tiruvannamalai, up to the await of the upstream request:
\* a cache hit answers at once, a miss sends the upstream request
get_tiruvannamalai_weather(op, k, c) ==
    /\ Authenticated(c)
    /\ \A call \in weatherCalls : call.id # k
    /\ LET g == WeatherCache_get(weatherCache, cache_key, now)
       IN  IF g.hit
           THEN LET data == [g.data EXCEPT !.cached = TRUE]
                IN  /\ weatherCache' =
                          [g.cache EXCEPT ![cache_key].data = data]
                    /\ weatherCalls' = weatherCalls
                    /\ resp' = WeatherEndpoint(op, c, k, data)
           ELSE /\ weatherCache' = g.cache
                /\ weatherCalls' =
                      weatherCalls \cup {[id |-> k, caller |-> c, op |-> op]}
                /\ resp' = Response("fetch_from_imd", c, k, 0, "", <<>>)
    /\ UNCHANGED now
    /\ UNCHANGED_but_weather

\* GET /weather/current: with or without coordinates the same service call
get_current_weather(k, c, coordinates) ==
    get_tiruvannamalai_weather("get_current_weather", k, c)

\* the upstream answered and was parsed: the result is cached and returned
fetch_from_imd_returns(call, weather) ==
    /\ call \in weatherCalls
    /\ LET data == WeatherFetched(weather)
       IN  /\ weatherCache' =
                 WeatherCache_set(weatherCache, cache_key, data, now)
           /\ resp' = WeatherEndpoint(call.op, call.caller, call.id, data)
    /\ weatherCalls' = weatherCalls \ {call}
    /\ UNCHANGED now
    /\ UNCHANGED_but_weather

\* the upstream request or the parsing raised: the fallback is returned
fetch_from_imd_raises(call) ==
    /\ call \in weatherCalls
    /\ resp' = WeatherEndpoint(call.op, call.caller, call.id,
                               get_fallback_data)
    /\ weatherCalls' = weatherCalls \ {call}
    /\ UNCHANGED <<now, weatherCache, notifications>>
    /\ UNCHANGED_but_weather

\* time passes
WeatherTick ==
    /\ \E t \in WeatherTimePoints : t > now /\ now' = t
    /\ resp' = Response("tick", NoId, NoId, 0, "", <<>>)
    /\ UNCHANGED <<weatherCache, weatherCalls, notifications>>
    /\ UNCHANGED_but_weather

NextWeather ==
    \/ \E k \in CallIds, c \in UserIds :
          get_tiruvannamalai_weather("get_tiruvannamalai_weather", k, c)
    \/ \E k \in CallIds, c \in UserIds,
          coordinates \in {"none", "given"} :
          get_current_weather(k, c, coordinates)
    \/ \E call \in weatherCalls, weather \in WeatherPayloads :
          fetch_from_imd_returns(call, weather)
    \/ \E call \in weatherCalls : fetch_from_imd_raises(call)
    \/ WeatherTick

SpecWeather == Init /\ [][NextWeather]_vars

\* ------------------------------------------------------------------------
\* Properties of the weather cache
\* ------------------------------------------------------------------------
WeatherOps == {"get_tiruvannamalai_weather", "get_current_weather"}

\* the cache holds an entry younger than the TTL
WeatherFresh ==
    /\ cache_key \in DOMAIN weatherCache
    /\ now - weatherCache[cache_key].timestamp < cache_ttl_minutes

\* the step is a call answered from the cache / a call that sends the
\* upstream request / the end of a call that had sent one
WeatherHitStep == resp'.op \in WeatherOps /\ weatherCalls' = weatherCalls
WeatherMissStep == resp'.op = "fetch_from_imd"
WeatherFetchEnd == resp'.op \in WeatherOps /\ weatherCalls' # weatherCalls

\* what a call does with the entry the cache holds when the call starts
WeatherCallUsesEntry ==
    /\ WeatherHitStep =>
          /\ WeatherFresh
          /\ resp'.data.cached = TRUE
          /\ resp'.data.weather = weatherCache[cache_key].data.weather
          /\ weatherCache'[cache_key].timestamp =
                weatherCache[cache_key].timestamp
          /\ weatherCache'[cache_key].data.weather =
                weatherCache[cache_key].data.weather
    /\ WeatherMissStep =>
          /\ ~WeatherFresh
          /\ Cardinality(weatherCalls') = Cardinality(weatherCalls) + 1
    /\ WeatherFetchEnd =>
          /\ resp'.data.cached = FALSE
          /\ resp'.data.weather # "fallback" =>
                /\ weatherCache'[cache_key].timestamp = now
                /\ weatherCache'[cache_key].data.weather = resp'.data.weather

\* C12 as amended: a call that starts while the cache holds an entry stored
\* less than 15 minutes ago returns that entry's data with cached=true and
\* sends no upstream request; a call that starts when the entry is 15
\* minutes old or older, or absent, sends one; the call that fetched
\* returns cached=false and its result is stored with the time of the
\* store. The entry is the one of the latest store.
C12_CachedForTtl == [][WeatherCallUsesEntry]_vars

\* C12: after a result was stored at time t, every call that starts in
\* [t, t+TTL) returns that stored data with cached=true and sends no
\* upstream request, and the first call at or after t+TTL sends one: the
\* data stored at t stays the stored data for the whole of [t, t+TTL).
C12_StoredDataServedForTtl ==
    [][ /\ WeatherCallUsesEntry
        /\ WeatherFresh =>
              /\ cache_key \in DOMAIN weatherCache'
              /\ weatherCache'[cache_key].timestamp =
                    weatherCache[cache_key].timestamp
              /\ weatherCache'[cache_key].data.weather =
                    weatherCache[cache_key].data.weather ]_vars

\* a call one minute before the entry expires is answered from the cache
C12_Witness ==
    /\ resp.op \in WeatherOps /\ resp.code = 200
    /\ resp.data.cached = TRUE
    /\ cache_key \in DOMAIN weatherCache
    /\ weatherCache[cache_key].data.weather = resp.data.weather
    /\ now - weatherCache[cache_key].timestamp = cache_ttl_minutes - 1

C14_ExpiryOnRead ==
    [][ /\ WeatherHitStep =>
              now - weatherCache[cache_key].timestamp < cache_ttl_minutes
        /\ \A k \in DOMAIN weatherCache \ DOMAIN weatherCache' :
              /\ WeatherMissStep
              /\ now - weatherCache[k].timestamp >= cache_ttl_minutes
        /\ (/\ resp'.op \in WeatherOps \cup {"fetch_from_imd"}
            /\ weatherCalls \subseteq weatherCalls'
            /\ cache_key \in DOMAIN weatherCache
            /\ now - weatherCache[cache_key].timestamp >= cache_ttl_minutes)
              => cache_key \notin DOMAIN weatherCache'
        /\ DOMAIN weatherCache' \subseteq {cache_key} ]_vars

\* a call with coordinates is answered from the entry under the one key,
\* one minute before it expires
C14_Witness ==
    /\ resp.op = "get_current_weather" /\ resp.data.cached = TRUE
    /\ DOMAIN weatherCache = {cache_key}
    /\ now - weatherCache[cache_key].timestamp = cache_ttl_minutes - 1
    /\ weatherCalls = {}
    /\ notifications = SeedNotifications

\* ------------------------------------------------------------------------
\* Failures of API operations
\* ------------------------------------------------------------------------
\* GET /farm/tasks/{task_id}: the path parameter is a str, UUID(task_id)
\* raises ValueError for a malformed one and nothing catches it
get_task(c, task_id, wellformed) ==
    /\ Authenticated(c)
    /\ resp' = IF ~wellformed
               THEN ServerError("get_task", c, NoId, <<>>)
               ELSE IF TaskService_get_task_by_id(task_id) = {}
               THEN TaskNotFound("get_task", c, task_id, <<>>)
               ELSE IF farmTasks[task_id].org_id # users[c].org_id
               THEN AccessDenied("get_task", c, task_id, <<>>)
               ELSE Response("get_task", c, task_id, 200, "", <<>>)
    /\ UNCHANGED farmTasks
    /\ UNCHANGED_but_farmTasks

\* reading a farm task, and concurrent create_schedule requests
NextErrors ==
    \/ \E c \in UserIds, t \in FarmTaskIds, wellformed \in BOOLEAN :
          get_task(c, t, wellformed)
    \/ \E r \in Requests, c \in UserIds :
          create_schedule_begin(r, c, [date |-> "d2",
                                       tasks |-> <<[field_id |-> 1]>>])
    \/ \E r \in Requests : create_schedule_flush_schedule(r)
    \/ \E r \in Requests : create_schedule_flush_tasks(r)
    \/ \E r \in Requests : create_schedule_commit(r)

SpecErrors == Init /\ [][NextErrors]_vars

\* C15: every failure of an API operation, a lost race on a unique
\* constraint and a malformed task id included, reaches the caller as one
\* of the statuses 400, 401, 403, 404 or 503 with a message string.
C15_StandardStatusCodes ==
    resp.code \notin {0, 200, 201} =>
       /\ resp.code \in {400, 401, 403, 404, 503}
       /\ resp.detail # ""

\* ------------------------------------------------------------------------
\* TaskService.get_my_tasks and GET /farm/tasks/my
\* ------------------------------------------------------------------------
MaxFarmRows == 3

TaskStatus == {"pending", "in_progress", "completed", "postponed",
               "cancelled"}

\* rows differing in organization, assignee and status
FarmTaskRows ==
    {[FarmTask(org, "t1") EXCEPT !.assigned_to = a, !.status = s] :
        org \in Orgs, a \in {1, 2},
        s \in {"pending", "completed", "cancelled"}}

RowRank(row) ==
    (IF row.org_id = "o1" THEN 0 ELSE 6) + 3 * (row.assigned_to - 1)
    + (IF row.status = "pending" THEN 0
       ELSE IF row.status = "completed" THEN 1 ELSE 2)

\* the farm_tasks tables get_my_tasks is applied to: every combination of
\* rows, one table for each (which id holds which row makes no difference
\* to the queries)
FarmTaskTables ==
    {f \in [1..MaxFarmRows -> FarmTaskRows] :
        \A i, j \in 1..MaxFarmRows :
           i < j => RowRank(f[i]) <= RowRank(f[j])}

\* query parameters of GET /farm/tasks/my (skip >= 0, 1 <= limit <= 200)
MyTasksQueries ==
    [skip : {0, 1, MaxFarmRows}, limit : {1, 2},
     status : {NULL, "", "completed"}, include_completed : BOOLEAN]

\* ORDER BY compares the priority strings
PriorityRank(p) ==
    IF p = "high" THEN 1 ELSE IF p = "low" THEN 2
    ELSE IF p = "normal" THEN 3 ELSE 4

DateRank(date) == IF date = "d1" THEN 1 ELSE 2

\* ORDER BY priority DESC, scheduled_date ASC: row a may come before row b
OrderedBefore(a, b) ==
    \/ PriorityRank(a.priority) > PriorityRank(b.priority)
    \/ /\ a.priority = b.priority
       /\ DateRank(a.scheduled_date) <= DateRank(b.scheduled_date)

\* the conditions of get_my_tasks without the organization
MyTasksConditions_NoOrg(t, org_id, user_id, status_filter, include_completed) ==
    /\ farmTasks[t].assigned_to = user_id
    /\ IF status_filter \notin {NULL, ""}
       THEN farmTasks[t].status = status_filter
       ELSE include_completed \/
            farmTasks[t].status \notin {"completed", "cancelled"}

\* the conditions of get_my_tasks on row t; an empty status_filter is falsy
MyTasksConditions(t, org_id, user_id, status_filter, include_completed) ==
    /\ farmTasks[t].org_id = org_id
    /\ farmTasks[t].assigned_to = user_id
    /\ IF status_filter \notin {NULL, ""}
       THEN farmTasks[t].status = status_filter
       ELSE include_completed \/
            farmTasks[t].status \notin {"completed", "cancelled"}

\* the results the two queries of TaskService.get_my_tasks can give: the
\* page in any order the ORDER BY allows, and the total
TaskService_get_my_tasks(org_id, user_id, skip, limit, status_filter, include_completed) ==
    LET rows == {t \in DOMAIN farmTasks :
                    MyTasksConditions(t, org_id, user_id, status_filter,
                                      include_completed)}
        total == Cardinality(rows)
        orders == {o \in [1..total -> rows] :
                      /\ \A i, j \in 1..total : i # j => o[i] # o[j]
                      /\ \A i, j \in 1..total :
                            i < j => OrderedBefore(farmTasks[o[i]],
                                                   farmTasks[o[j]])}
        last == IF skip + limit < total THEN skip + limit ELSE total
    IN  {[items |-> SubSeq(o, skip + 1, last), total |-> total] :
            o \in orders}

\* GET /farm/tasks/my
get_my_tasks(c, q) ==
    /\ Authenticated(c)
    /\ \E r \in TaskService_get_my_tasks(users[c].org_id, c, q.skip, q.limit,
                                         q.status, q.include_completed) :
          resp' = Response("get_my_tasks", c, NoId, 200, "",
                           [query |-> q, items |-> r.items,
                            total |-> r.total])
    /\ UNCHANGED farmTasks
    /\ UNCHANGED_but_farmTasks

InitMyTasks ==
    /\ users = SeedUsers
    /\ tokens = {}
    /\ now = 0
    /\ locations = SeedLocations
    /\ farmTasks \in FarmTaskTables
    /\ daySchedules = SeedDaySchedules
    /\ scheduledTasks = SeedScheduledTasks
    /\ taskUpdates = <<>>
    /\ sessions = <<>>
    /\ weatherCache = <<>>
    /\ weatherCalls = {}
    /\ notifications = SeedNotifications
    /\ resp = Response("none", NoId, NoId, 0, "", <<>>)

NextMyTasks ==
    \E c \in UserIds, q \in MyTasksQueries : get_my_tasks(c, q)

SpecMyTasks == InitMyTasks /\ [][NextMyTasks]_vars

\* the farm tasks GET /farm/tasks/my must count for caller c and query q
C16_Matching(c, q) ==
    {t \in DOMAIN farmTasks :
        /\ farmTasks[t].org_id = users[c].org_id
        /\ farmTasks[t].assigned_to = c
        /\ (q.status \notin {NULL, ""} => farmTasks[t].status = q.status)
        /\ (q.status \in {NULL, ""} /\ ~q.include_completed) =>
              farmTasks[t].status \notin {"completed", "cancelled"}}

\* C16: get_my_tasks returns only farm tasks of the caller's organization
\* assigned to the caller; without a status filter and with
\* include_completed false none of them is completed or cancelled; with a
\* status filter they are the tasks of that status whatever
\* include_completed is; total counts all matching tasks whatever skip and
\* limit are; the page holds min(limit, max(0, total - skip)) distinct
\* matching tasks.
C16_MyTasksPage ==
    resp.op = "get_my_tasks" =>
       LET q == resp.data.query
           items == resp.data.items
           total == resp.data.total
           rest == IF total - q.skip > 0 THEN total - q.skip ELSE 0
       IN  /\ total = Cardinality(C16_Matching(resp.caller, q))
           /\ \A i \in 1..Len(items) :
                 items[i] \in C16_Matching(resp.caller, q)
           /\ \A i, j \in 1..Len(items) : i # j => items[i] # items[j]
           /\ Len(items) = IF q.limit < rest THEN q.limit ELSE rest

\* a second page: two tasks match, one is skipped, and a task of another
\* organization assigned to the caller is left out
C16_Witness ==
    /\ resp.op = "get_my_tasks"
    /\ resp.data.total = 2 /\ resp.data.query.skip = 1
    /\ Len(resp.data.items) = 1
    /\ \E t \in DOMAIN farmTasks :
          /\ farmTasks[t].assigned_to = resp.caller
          /\ farmTasks[t].org_id # users[resp.caller].org_id

\* ------------------------------------------------------------------------
\* Specification of the location tree: creation under a parent,
\* deactivation and reactivation, soft delete
\* ------------------------------------------------------------------------
NextLocations ==
    \/ \E c \in UserIds, parent \in {1, MaxLocations}, code \in {"SHED", "BARN"} :
          create_location(c, [org_id |-> "o1", parent_id |-> parent,
                              code |-> code, qr_code |-> NULL])
    \/ \E c \in UserIds, l \in LocationIds, active \in {"true", "false"} :
          update_location(c, l, [qr_code |-> UNSET, is_active |-> active])
    \/ \E c \in UserIds, l \in LocationIds \cup {MaxLocations + 1} :
          delete_location(c, l)

SpecLocations == Init /\ [][NextLocations]_vars

C17_ActiveChildren(l) ==
    {k \in DOMAIN locations :
        locations[k].parent_id = l /\ locations[k].is_active}

\* C17: a DELETE /locations/{id} that passes the role gate answers 404 on
\* an unknown id and changes nothing; answers 400 on a location with at
\* least one active child and leaves the location (and every other row) as
\* it was; otherwise sets is_active of that location to false, removes no
\* row and changes no other row.
C17_SoftDelete ==
    [][(resp'.op = "delete_location" /\ resp'.code # 403) =>
          LET l == resp'.target
          IN  /\ DOMAIN locations' = DOMAIN locations
              /\ IF l \notin DOMAIN locations
                 THEN resp'.code = 404 /\ locations' = locations
                 ELSE IF C17_ActiveChildren(l) # {}
                 THEN /\ resp'.code = 400
                      /\ locations' = locations
                      /\ locations[l].is_active => locations'[l].is_active
                 ELSE /\ resp'.code = 200
                      /\ locations' =
                            [locations EXCEPT ![l].is_active = FALSE]]_vars

\* a parent is soft-deleted once its child is no longer active: both rows
\* are still in the table
C17_Witness ==
    /\ resp.op = "delete_location" /\ resp.code = 200
    /\ resp.target = 1
    /\ ~locations[1].is_active
    /\ \E k \in DOMAIN locations :
          locations[k].parent_id = 1 /\ ~locations[k].is_active

\* ------------------------------------------------------------------------
\* AuthService.change_pin and POST /auth/change-pin
\* ------------------------------------------------------------------------
\* ChangePINRequest bodies
ChangePINRequests == [current_pin : Pins, new_pin : Pins]

\* change_pin that does not verify the current PIN
AuthService_change_pin_NoVerify(user_id, current_pin, new_pin) ==
    IF get_user_by_id(user_id) = {}
    THEN [code |-> 404, detail |-> "User not found", table |-> users]
    ELSE [code |-> 200, detail |-> "",
          table |-> [users EXCEPT ![user_id].pin_hash = hash_pin(new_pin)]]

\* AuthService.change_pin: the response code, its detail, the committed
\* table
AuthService_change_pin(user_id, current_pin, new_pin) ==
    IF get_user_by_id(user_id) = {}
    THEN [code |-> 404, detail |-> "User not found", table |-> users]
    ELSE IF \/ users[user_id].pin_hash = NoHash
            \/ ~verify_pin(current_pin, users[user_id].pin_hash)
    THEN [code |-> 400, detail |-> "Current PIN is incorrect",
          table |-> users]
    ELSE [code |-> 200, detail |-> "",
          table |-> [users EXCEPT ![user_id].pin_hash = hash_pin(new_pin)]]

\* POST /auth/change-pin
change_pin(c, request) ==
    /\ Authenticated(c)
    /\ LET r == AuthService_change_pin(c, request.current_pin,
                                       request.new_pin)
       IN  /\ resp' = Response("change_pin", c, c, r.code, r.detail,
                               [request |-> request])
           /\ users' = r.table
    /\ UNCHANGED_but_users

\* a user whose nullable pin_hash column holds no hash and who logs in
\* with a password
PasswordOnlyUser ==
    (MaxUsers :> User("o1", "E9", SUPERVISOR, "general", NULL, "adminpass"))

InitPins ==
    /\ users \in {SeedUsers, SeedUsers @@ PasswordOnlyUser}
    /\ tokens = {}
    /\ now = 0
    /\ locations = SeedLocations
    /\ farmTasks = SeedFarmTasks
    /\ daySchedules = SeedDaySchedules
    /\ scheduledTasks = SeedScheduledTasks
    /\ taskUpdates = <<>>
    /\ sessions = <<>>
    /\ weatherCache = <<>>
    /\ weatherCalls = {}
    /\ notifications = SeedNotifications
    /\ resp = Response("none", NoId, NoId, 0, "", <<>>)

NextPins ==
    \/ \E c \in UserIds, request \in ChangePINRequests :
          change_pin(c, request)
    \/ \E code \in EmployeeCodes, pin \in Pins \cup {NULL},
          password \in {"adminpass", NULL} : login(code, pin, password)
    \/ \E c \in UserIds, t \in UserIds, pin \in Pins :
          reset_user_pin(c, t, pin)

SpecPins == InitPins /\ [][NextPins]_vars

\* after a successful change: a login with the caller's employee code and
\* new_pin authenticates the caller, one with the old PIN and no password
\* authenticates nobody when the two PINs differ
C18_LoginAfterChange ==
    LET c == resp.caller
        request == resp.data.request
        code == users[c].employee_code
    IN  /\ LoginUser(code, request.new_pin, NULL) = {c}
        /\ request.new_pin # request.current_pin =>
              LoginUser(code, request.current_pin, NULL) = {}

\* C18: POST /auth/change-pin answers 400 and leaves the users table as it
\* was when the caller has no PIN hash or current_pin does not verify
\* against it; when it verifies, only the caller's pin_hash changes, and
\* right afterwards a login with the caller's employee code and new_pin
\* authenticates the caller, while a login with the old PIN and no
\* password authenticates nobody when the two PINs differ.
C18_ChangePin ==
    [][resp'.op = "change_pin" =>
          LET c == resp'.caller
              request == resp'.data.request
          IN  IF users[c].pin_hash # <<"bcrypt", request.current_pin>>
              THEN /\ resp'.code = 400
                   /\ users' = users
              ELSE /\ resp'.code = 200
                   /\ \A u \in DOMAIN users \ {c} : users'[u] = users[u]
                   /\ DOMAIN users' = DOMAIN users
                   /\ \A f \in DOMAIN users[c] \ {"pin_hash"} :
                         users'[c][f] = users[c][f]
                   /\ C18_LoginAfterChange'
      ]_vars

\* a caller replaced the PIN by a different one
C18_Witness ==
    /\ resp.op = "change_pin" /\ resp.code = 200
    /\ resp.data.request.new_pin # resp.data.request.current_pin
    /\ users[resp.caller].pin_hash # SeedUsers[resp.caller].pin_hash

\* a caller without a PIN hash was refused
C18_WitnessNoHash ==
    /\ resp.op = "change_pin" /\ resp.code = 400
    /\ users[resp.caller].pin_hash = NoHash

\* ------------------------------------------------------------------------
\* Specification of token refresh: logins, role and department changes and
\* deactivation by an administrator, the clock, refresh requests
\* ------------------------------------------------------------------------
NextRefresh ==
    \/ \E code \in {"E1", "E2"}, pin \in Pins : login(code, pin, NULL)
    \/ \E token \in Presented : refresh_access_token(token)
    \/ \E t \in {1, 2}, role \in {UNSET, SUPERVISOR},
          department \in {UNSET, "general"} :
          update_user(1, t, [role |-> role, department |-> department,
                             is_active |-> UNSET])
    \/ \E t \in {2} : delete_user(1, t)
    \/ Tick

SpecRefresh == Init /\ [][NextRefresh]_vars

C19_WitnessAccess ==
    /\ resp.op = "refresh" /\ resp.code = 401
    /\ resp.data.token.type = "access"
    /\ resp.detail = "Invalid token type"

\* ------------------------------------------------------------------------
\* Read endpoints: GET /farm/scheduled-tasks/{id}, GET /farm/fields,
\* GET /locations/tree
\* ------------------------------------------------------------------------
\* the location each seeded field lies in (fields.location_id); a field
\* has no org_id of its own, and no endpoint writes the fields table
FieldLocation == [f \in SeedFields |-> 1]

Field_org_id(f) == locations[FieldLocation[f]].org_id

UNCHANGED_by_reads ==
    UNCHANGED <<users, tokens, now, locations, farmTasks, daySchedules,
                scheduledTasks, taskUpdates, sessions, weatherCache,
                weatherCalls, notifications>>

\* what a read returned: the ids of the entities and the organizations
\* they belong to
ReadResult(ids, orgs) == [ids |-> ids, orgs |-> orgs]

\* GET /farm/scheduled-tasks/{task_id}
get_scheduled_task(c, task_id) ==
    /\ Authenticated(c)
    /\ resp' = IF ScheduleService_get_task_by_id(task_id) = {}
               THEN TaskNotFound("get_scheduled_task", c, task_id,
                                 ReadResult({}, {}))
               ELSE Response("get_scheduled_task", c, task_id, 200, "",
                             ReadResult({task_id},
                                        {scheduledTasks[task_id].org_id}))
    /\ UNCHANGED_by_reads

\* ScheduleService.get_fields: every active field (org_id is not used)
ScheduleService_get_fields(org_id) == SeedFields

\* GET /farm/fields
list_fields(c) ==
    /\ Authenticated(c)
    /\ LET fields == ScheduleService_get_fields(users[c].org_id)
       IN  resp' = Response("list_fields", c, NoId, 200, "",
                            ReadResult(fields,
                                       {Field_org_id(f) : f \in fields}))
    /\ UNCHANGED_by_reads

\* build_tree: the location and the subtrees of its active children
RECURSIVE build_tree(_)
build_tree(location) ==
    {location} \cup
    UNION {build_tree(child) :
              child \in {k \in DOMAIN locations :
                            /\ locations[k].parent_id = location
                            /\ locations[k].is_active}}

\* LocationService.get_tree: the locations of the returned trees
LocationService_get_tree(org_id, root_id) ==
    LET roots == IF root_id # NoId
                 THEN LocationService_get_by_id(root_id)
                 ELSE {l \in DOMAIN locations :
                          /\ locations[l].org_id = org_id
                          /\ locations[l].parent_id = NoId
                          /\ locations[l].is_active}
    IN  UNION {build_tree(root) : root \in roots}

\* GET /locations/tree
get_location_tree(c, root_id) ==
    /\ Authenticated(c)
    /\ LET tree == LocationService_get_tree(users[c].org_id, root_id)
       IN  resp' = Response("get_location_tree", c, root_id, 200, "",
                            ReadResult(tree,
                                       {locations[l].org_id : l \in tree}))
    /\ UNCHANGED_by_reads

NextReads ==
    \/ \E c \in UserIds, t \in TaskIds : get_scheduled_task(c, t)
    \/ \E c \in UserIds : list_fields(c)
    \/ \E c \in UserIds, root_id \in {NoId} \cup LocationIds :
          get_location_tree(c, root_id)
    \/ \E c \in UserIds, org \in Orgs, parent \in {1, 2},
          code \in {"SHED", "BARN"} :
          create_location(c, [org_id |-> org, parent_id |-> parent,
                              code |-> code, qr_code |-> NULL])
    \/ \E c \in UserIds, l \in LocationIds : delete_location(c, l)
    \/ \E c \in UserIds, field_id \in {NoId, 1} :
          create_scheduled_task(c, [field_id |-> field_id])

SpecReads == Init /\ [][NextReads]_vars

C20_ReadOps == {"get_scheduled_task", "list_fields", "get_location_tree"}

\* C20: GET /farm/scheduled-tasks/{id}, GET /farm/fields and
\* GET /locations/tree (with or without root_id) return only entities that
\* belong to the organization of the caller.
C20_NoCrossOrgRead ==
    (resp.op \in C20_ReadOps /\ resp.code = 200) =>
        resp.data.orgs \subseteq {users[resp.caller].org_id}

\* ------------------------------------------------------------------------
\* NotificationService and the /notifications endpoints
\* ------------------------------------------------------------------------
MaxNotifications == 3

NotificationIds == 1..MaxNotifications

\* the rows a notifications table can hold: recipients, priorities, unread
\* or read at the start of the clock
NotificationRows ==
    {Notification(u, p, r) :
        u \in {1, 2}, p \in {"normal", "critical"}, r \in {NoTime, 0}}

UNCHANGED_but_notifications ==
    UNCHANGED <<users, tokens, now, locations, farmTasks, daySchedules,
                scheduledTasks, taskUpdates, sessions, weatherCache,
                weatherCalls>>

NotificationService_get_by_id(notification_id) ==
    IF notification_id \in DOMAIN notifications
    THEN {notification_id} ELSE {}

NotificationNotFound(op, c, t, data) ==
    Response(op, c, t, 404, "Notification not found", data)

\* GET /notifications/{notification_id}
get_notification(c, notification_id) ==
    /\ Authenticated(c)
    /\ resp' = IF NotificationService_get_by_id(notification_id) = {}
               THEN NotificationNotFound("get_notification", c,
                                         notification_id, <<>>)
               ELSE IF notifications[notification_id].user_id # c
               THEN AccessDenied("get_notification", c, notification_id,
                                 <<>>)
               ELSE Response("get_notification", c, notification_id, 200,
                             "", <<>>)
    /\ UNCHANGED notifications
    /\ UNCHANGED_but_notifications

\* the rows an UPDATE or a lookup restricted to the id alone matches
NotificationService_owned_AnyUser(notification_id, user_id) ==
    {n \in DOMAIN notifications : n = notification_id}

\* the rows with this id that belong to user_id
NotificationService_owned(notification_id, user_id) ==
    {n \in DOMAIN notifications :
        n = notification_id /\ notifications[n].user_id = user_id}

\* NotificationService.mark_as_read: rowcount > 0 and the updated table
NotificationService_mark_as_read(notification_id, user_id) ==
    LET rows == NotificationService_owned(notification_id, user_id)
    IN  [success |-> rows # {},
         table |-> [n \in DOMAIN notifications |->
                       IF n \in rows
                       THEN [notifications[n] EXCEPT !.read_at = now]
                       ELSE notifications[n]]]

\* PUT /notifications/{notification_id}/read
mark_as_read(c, notification_id) ==
    /\ Authenticated(c)
    /\ LET r == NotificationService_mark_as_read(notification_id, c)
       IN  /\ resp' = IF ~r.success
                      THEN NotificationNotFound("mark_as_read", c,
                                                notification_id, <<>>)
                      ELSE Response("mark_as_read", c, notification_id, 200,
                                    "", <<>>)
           /\ notifications' = get_db(notifications, r.table, ~r.success)
    /\ UNCHANGED_but_notifications

\* NotificationService.delete: whether a row was deleted, and the table
NotificationService_delete(notification_id, user_id) ==
    LET rows == NotificationService_owned(notification_id, user_id)
    IN  [success |-> rows # {},
         table |-> [n \in DOMAIN notifications \ rows |-> notifications[n]]]

\* DELETE /notifications/{notification_id}
delete_notification(c, notification_id) ==
    /\ Authenticated(c)
    /\ LET r == NotificationService_delete(notification_id, c)
       IN  /\ resp' = IF ~r.success
                      THEN NotificationNotFound("delete_notification", c,
                                                notification_id, <<>>)
                      ELSE Response("delete_notification", c,
                                    notification_id, 200, "", <<>>)
           /\ notifications' = get_db(notifications, r.table, ~r.success)
    /\ UNCHANGED_but_notifications

\* the rows mark_all_as_read would match without the read_at condition
NotificationService_unread_AnyReadAt(user_id) ==
    {n \in DOMAIN notifications : notifications[n].user_id = user_id}

\* the unread rows of user_id
NotificationService_unread(user_id) ==
    {n \in DOMAIN notifications :
        /\ notifications[n].user_id = user_id
        /\ notifications[n].read_at = NoTime}

\* NotificationService.mark_all_as_read: rowcount and the updated table
NotificationService_mark_all_as_read(user_id) ==
    LET rows == NotificationService_unread(user_id)
    IN  [count |-> Cardinality(rows),
         table |-> [n \in DOMAIN notifications |->
                       IF n \in rows
                       THEN [notifications[n] EXCEPT !.read_at = now]
                       ELSE notifications[n]]]

\* PUT /notifications/read-all
mark_all_as_read(c) ==
    /\ Authenticated(c)
    /\ LET r == NotificationService_mark_all_as_read(c)
       IN  /\ resp' = Response("mark_all_as_read", c, NoId, 200, "",
                               [count |-> r.count])
           /\ notifications' = get_db(notifications, r.table, FALSE)
    /\ UNCHANGED_but_notifications

\* NotificationService.get_notification_count
NotificationService_get_notification_count(user_id) ==
    [total |-> Cardinality({n \in DOMAIN notifications :
                               notifications[n].user_id = user_id}),
     unread |-> Cardinality({n \in DOMAIN notifications :
                                /\ notifications[n].user_id = user_id
                                /\ notifications[n].read_at = NoTime}),
     critical |-> Cardinality({n \in DOMAIN notifications :
                                  /\ notifications[n].user_id = user_id
                                  /\ notifications[n].read_at = NoTime
                                  /\ notifications[n].priority = "critical"})]

\* GET /notifications/count
get_notification_count(c) ==
    /\ Authenticated(c)
    /\ resp' = Response("get_notification_count", c, NoId, 200, "",
                        NotificationService_get_notification_count(c))
    /\ UNCHANGED notifications
    /\ UNCHANGED_but_notifications

\* ------------------------------------------------------------------------
\* Specification of notifications: any table of notifications of two
\* users, read some time after the start of the clock
\* ------------------------------------------------------------------------
InitNotifications ==
    /\ users = SeedUsers
    /\ tokens = {}
    /\ now = access_token_expire_minutes
    /\ locations = SeedLocations
    /\ farmTasks = SeedFarmTasks
    /\ daySchedules = SeedDaySchedules
    /\ scheduledTasks = SeedScheduledTasks
    /\ taskUpdates = <<>>
    /\ sessions = <<>>
    /\ weatherCache = <<>>
    /\ weatherCalls = {}
    /\ notifications \in [NotificationIds -> NotificationRows]
    /\ resp = Response("none", NoId, NoId, 0, "", <<>>)

NextNotifications ==
    \/ \E c \in UserIds, n \in NotificationIds \cup {MaxNotifications + 1} :
          get_notification(c, n)
    \/ \E c \in UserIds, n \in NotificationIds \cup {MaxNotifications + 1} :
          mark_as_read(c, n)
    \/ \E c \in UserIds : mark_all_as_read(c)
    \/ \E c \in UserIds, n \in NotificationIds \cup {MaxNotifications + 1} :
          delete_notification(c, n)
    \/ \E c \in UserIds : get_notification_count(c)

SpecNotifications == InitNotifications /\ [][NextNotifications]_vars

C21_Ops == {"get_notification", "mark_as_read", "delete_notification"}

\* C21: a GET, PUT .../read or DELETE on a notification that belongs to
\* another user leaves the notifications table as it was (the notification
\* exists with the read_at it had) and answers 403 for GET and 404 for
\* PUT .../read and DELETE; a request that answers 200 is about a
\* notification of the caller.
C21_OwnNotificationsOnly ==
    [][(resp'.op \in C21_Ops /\ resp'.target \in DOMAIN notifications) =>
          LET n == resp'.target
          IN  IF notifications[n].user_id # resp'.caller
              THEN /\ notifications' = notifications
                   /\ resp'.code = IF resp'.op = "get_notification"
                                   THEN 403 ELSE 404
              ELSE resp'.code = 200
      ]_vars

\* a user asked to delete an unread notification of another user and was
\* refused
C21_Witness ==
    /\ resp.op = "delete_notification" /\ resp.code = 404
    /\ resp.target \in DOMAIN notifications
    /\ notifications[resp.target].user_id # resp.caller
    /\ notifications[resp.target].read_at = NoTime

\* the notification count of the caller of the last request reports no
\* unread and no critical notification
C22_NothingUnread ==
    LET count == NotificationService_get_notification_count(resp.caller)
    IN  count.unread = 0 /\ count.critical = 0

\* C22: PUT /notifications/read-all sets read_at on exactly the caller's
\* notifications whose read_at was null and reports their number; every
\* other row, the caller's already-read notifications included, is
\* unchanged and no row is added or removed; right afterwards the
\* caller's notification count has unread = 0 and critical = 0.
C22_MarkAllAsRead ==
    [][resp'.op = "mark_all_as_read" =>
          LET u == resp'.caller
              unread == {n \in DOMAIN notifications :
                            /\ notifications[n].user_id = u
                            /\ notifications[n].read_at = NoTime}
          IN  /\ DOMAIN notifications' = DOMAIN notifications
              /\ resp'.data.count = Cardinality(unread)
              /\ \A n \in unread :
                    /\ notifications'[n].read_at # NoTime
                    /\ notifications'[n].user_id = u
                    /\ notifications'[n].priority = notifications[n].priority
              /\ \A n \in DOMAIN notifications \ unread :
                    notifications'[n] = notifications[n]
              /\ C22_NothingUnread'
      ]_vars

\* read-all marked a notification while the caller had one read before,
\* at an earlier time, and another user had an unread one
C22_Witness ==
    /\ resp.op = "mark_all_as_read" /\ resp.data.count = 1
    /\ \E n \in DOMAIN notifications :
          /\ notifications[n].user_id = resp.caller
          /\ notifications[n].read_at = now
    /\ \E n \in DOMAIN notifications :
          /\ notifications[n].user_id = resp.caller
          /\ notifications[n].read_at = 0
    /\ \E n \in DOMAIN notifications :
          /\ notifications[n].user_id # resp.caller
          /\ notifications[n].read_at = NoTime

\* ------------------------------------------------------------------------
\* Status requests on scheduled tasks running concurrently: each request
\* has its own database session, loads the task (get_task_by_id), assigns
\* the attributes and builds the TaskUpdate, then flushes and commits. The
\* unit of work writes the columns whose value differs from the loaded one
\* ------------------------------------------------------------------------
\* the statuses PATCH /farm/scheduled-tasks/{id}/update is sent (the status
\* of TaskStatusUpdateRequest is any string)
RequestedStatuses == {"scheduled", "in_progress"}

StatusOps == {"update_task_status", "complete_task", "report_task_issue"}

\* the attributes the handler op assigns on the loaded task
StatusHandlerRow(op, task, status) ==
    IF op = "update_task_status" THEN [task EXCEPT !.status = status]
    ELSE IF op = "complete_task"
    THEN [task EXCEPT !.status = "completed", !.completed_at = now]
    ELSE [task EXCEPT !.status = "has_issues", !.has_issues = TRUE,
                      !.issue_type = "weather"]

\* the status of the TaskUpdate the handler op adds
StatusHandlerUpdate(op, status) ==
    IF op = "update_task_status" THEN status
    ELSE IF op = "complete_task" THEN "completed" ELSE "has_issues"

\* a flush that emits no UPDATE
FlushRow_NoUpdate(committed, loaded, target) == committed

\* the UPDATE of a flush: the columns the session changed, SET on the
\* committed row; the other columns keep the committed value
FlushRow(committed, loaded, target) ==
    [col \in DOMAIN committed |->
        IF target[col] # loaded[col] THEN target[col] ELSE committed[col]]

UNCHANGED_by_status_requests ==
    UNCHANGED <<users, tokens, now, locations, farmTasks, daySchedules,
                weatherCache, weatherCalls, notifications>>

\* a status request up to its flush: 404 on an unknown task, else the
\* session holds the loaded task, the assigned attributes and the new
\* TaskUpdate
status_request_begin(r, c, task_id, op, status) ==
    /\ r \notin DOMAIN sessions
    /\ Authenticated(c)
    /\ Len(taskUpdates) + Cardinality(DOMAIN sessions) < MaxUpdates
    /\ IF ScheduleService_get_task_by_id(task_id) = {}
       THEN /\ resp' = TaskNotFound(op, c, task_id, <<>>)
            /\ UNCHANGED sessions
       ELSE /\ sessions' = sessions @@
                  (r :> [caller |-> c, pc |-> "loaded", op |-> op,
                         task_id |-> task_id,
                         loaded |-> scheduledTasks[task_id],
                         target |-> StatusHandlerRow(
                                        op, scheduledTasks[task_id], status),
                         update |-> TaskUpdate(
                                        task_id, c,
                                        StatusHandlerUpdate(op, status))])
            /\ resp' = Response("status_request_begin", c, task_id, 0, "",
                                <<>>)
    /\ UNCHANGED <<scheduledTasks, taskUpdates>>
    /\ UNCHANGED_by_status_requests

\* the flush and the commit of a status request
status_request_commit(r) ==
    /\ r \in DOMAIN sessions
    /\ sessions[r].pc = "loaded"
    /\ LET s == sessions[r]
           t == s.task_id
       IN  /\ scheduledTasks' =
                  [scheduledTasks EXCEPT
                      ![t] = FlushRow(@, s.loaded, s.target)]
           /\ taskUpdates' = Append(taskUpdates, s.update)
           /\ resp' = Response(s.op, s.caller, t, 200, "",
                               [requested |-> s.update.status,
                                loaded |-> s.loaded.status])
    /\ sessions' = CloseSession(r)
    /\ UNCHANGED_by_status_requests

NextStatusRace ==
    \/ \E r \in Requests, c \in {1, 2}, t \in {1, MaxTasks}, op \in StatusOps,
          status \in RequestedStatuses :
          status_request_begin(r, c, t, op, status)
    \/ \E r \in Requests : status_request_commit(r)
    \/ \E c \in {1, 2} : create_scheduled_task(c, [field_id |-> NoId])
    \/ \E c \in {1, 2}, t \in {1} :
          update_scheduled_task(c, t, [description_tamil |-> "t2"])

SpecStatusRace == Init /\ [][NextStatusRace]_vars

\* the TaskUpdate rows of task t, by their position in the history
C23_UpdatesOf(t) ==
    {i \in 1..Len(taskUpdates) : taskUpdates[i].task_id = t}

\* task t has the status of its latest TaskUpdate, or 'scheduled' when it
\* has none
C23_Consistent(t) ==
    LET ups == C23_UpdatesOf(t)
    IN  IF ups = {} THEN scheduledTasks[t].status = "scheduled"
        ELSE scheduledTasks[t].status =
                taskUpdates[CHOOSE i \in ups : \A j \in ups : j <= i].status

\* C23 as claimed: in every reachable state, concurrent status requests
\* included, every scheduled task has the status of its most recently
\* appended TaskUpdate, or 'scheduled' when it has none.
C23_StatusMatchesLastUpdate ==
    \A t \in DOMAIN scheduledTasks : C23_Consistent(t)

\* C23 amended: every step keeps a task that has the status of its latest
\* TaskUpdate (or 'scheduled' with none) in that condition, except the
\* commit of a status request that asked for the very status it had loaded
\* while another request changed the task's status in between; a task
\* created by a request has status 'scheduled' and no TaskUpdate.
C23_StatusMatchesUnlessStale ==
    [][\A t \in DOMAIN scheduledTasks' :
          LET stale == /\ resp'.op \in StatusOps /\ resp'.code = 200
                       /\ resp'.target = t
                       /\ resp'.data.requested = resp'.data.loaded
                       /\ resp'.data.loaded # scheduledTasks[t].status
          IN  IF t \notin DOMAIN scheduledTasks
              THEN /\ scheduledTasks'[t].status = "scheduled"
                   /\ C23_Consistent(t)'
              ELSE (C23_Consistent(t) /\ ~stale) => C23_Consistent(t)'
      ]_vars

\* two requests on one task overlapped and the one that committed last
\* wrote its status over the other's
C23_Witness ==
    /\ resp.op \in StatusOps /\ resp.code = 200
    /\ Len(taskUpdates) = 2
    /\ taskUpdates[1].task_id = resp.target
    /\ taskUpdates[2].task_id = resp.target
    /\ taskUpdates[1].status # taskUpdates[2].status
    /\ resp.data.loaded = "scheduled"
    /\ scheduledTasks[resp.target].status = taskUpdates[2].status

\* ------------------------------------------------------------------------
\* The location hierarchy: get_parent_path, GET /locations/qr/{qr_code}
\* ------------------------------------------------------------------------
\* the while loop of get_parent_path from location current, run for at most
\* fuel further iterations: the path from the topmost location reached down
\* to current, and whether the loop ended
RECURSIVE ParentPathFrom(_, _)
ParentPathFrom(current, fuel) ==
    IF current \notin DOMAIN locations
    THEN [path |-> <<>>, terminated |-> TRUE]
    ELSE IF locations[current].parent_id = NoId
    THEN [path |-> <<current>>, terminated |-> TRUE]
    ELSE IF fuel = 0
    THEN [path |-> <<current>>, terminated |-> FALSE]
    ELSE LET rest == ParentPathFrom(locations[current].parent_id, fuel - 1)
         IN  [path |-> Append(rest.path, current),
              terminated |-> rest.terminated]

\* LocationService.get_parent_path: a loop over a chain without a cycle
\* visits no location twice, so it ends within as many iterations as there
\* are locations
LocationService_get_parent_path(location_id) ==
    ParentPathFrom(location_id, Cardinality(DOMAIN locations))

\* GET /locations/qr/{qr_code}; the request answers when the loop of
\* get_parent_path ends
lookup_by_qr(c, qr_code) ==
    /\ Authenticated(c)
    /\ LET found == LocationService_get_by_qr_code(qr_code)
       IN  IF found = {}
           THEN resp' = NotFound("lookup_by_qr", c, NoId, <<>>)
           ELSE LET l == CHOOSE x \in found : TRUE
                    r == LocationService_get_parent_path(l)
                IN  IF locations[l].org_id # users[c].org_id
                    THEN resp' = AccessDenied("lookup_by_qr", c, l, <<>>)
                    ELSE /\ r.terminated
                         /\ resp' = Response("lookup_by_qr", c, l, 200, "",
                                             r.path)
    /\ UNCHANGED_by_reads

\* the locations at depth n of the trees get_tree builds from roots:
\* build_tree descends through the active children
RECURSIVE TreeLevel(_, _)
TreeLevel(roots, n) ==
    IF n = 0 THEN roots
    ELSE {k \in DOMAIN locations :
             /\ locations[k].is_active
             /\ locations[k].parent_id \in TreeLevel(roots, n - 1)}

\* the roots get_tree starts from
TreeRoots(org_id, root_id) ==
    IF root_id # NoId
    THEN LocationService_get_by_id(root_id)
    ELSE {l \in DOMAIN locations :
             /\ locations[l].org_id = org_id
             /\ locations[l].parent_id = NoId
             /\ locations[l].is_active}

\* ------------------------------------------------------------------------
\* Specification of the location hierarchy: creation with any parent
\* (none, one's own or another organization's, a missing one),
\* updates, soft delete, and the two reads that walk the hierarchy
\* ------------------------------------------------------------------------
NextTree ==
    \/ \E c \in {1, 2}, org \in Orgs,
          parent \in {NoId} \cup LocationIds \cup {MaxLocations + 1},
          code \in {"SHED", "BARN"}, qr \in {NULL, "qr-2"} :
          create_location(c, [org_id |-> org, parent_id |-> parent,
                              code |-> code, qr_code |-> qr])
    \/ \E c \in {1, 2}, l \in LocationIds :
          update_location(c, l, [qr_code |-> UNSET, is_active |-> "false"])
    \/ \E c \in {1}, l \in LocationIds : delete_location(c, l)
    \/ \E c \in {1, 2}, qr \in {"qr-1", "qr-2"} : lookup_by_qr(c, qr)
    \/ \E c \in {1}, root_id \in {NoId} \cup LocationIds :
          get_location_tree(c, root_id)

SpecTree == Init /\ [][NextTree]_vars

\* every location with a parent_id has an existing parent of its own
\* organization; the loop of get_parent_path ends for every location, and
\* the recursion of get_tree ends for every organization and every root
C24_WellFormed ==
    /\ \A l \in DOMAIN locations :
          locations[l].parent_id # NoId =>
             /\ locations[l].parent_id \in DOMAIN locations
             /\ locations[locations[l].parent_id].org_id =
                   locations[l].org_id
    /\ \A l \in LocationIds \cup {MaxLocations + 1} :
          LocationService_get_parent_path(l).terminated
    /\ \A org \in Orgs, root_id \in {NoId} \cup LocationIds :
          TreeLevel(TreeRoots(org, root_id),
                    Cardinality(DOMAIN locations)) = {}

\* no request removes a location or changes its parent_id or its org_id
C24_ParentFixed ==
    \A l \in DOMAIN locations :
       /\ l \in DOMAIN locations'
       /\ locations'[l].parent_id = locations[l].parent_id
       /\ locations'[l].org_id = locations[l].org_id

\* C24: after any sequence of location create, update and delete, every
\* location with a parent_id has a parent that exists and belongs to the
\* same organization, no request changes a parent_id, and get_parent_path
\* and get_tree terminate for every input.
C24_HierarchyWellFormed ==
    []C24_WellFormed /\ [][C24_ParentFixed]_vars

\* a location was created under a parent and later soft-deleted; creating
\* under a parent of another organization was refused before
C24_Witness ==
    /\ resp.op = "lookup_by_qr" /\ resp.code = 200
    /\ Len(resp.data) = 2
    /\ \E l \in DOMAIN locations :
          /\ locations[l].parent_id # NoId
          /\ ~locations[l].is_active

====
